---------------------------- MODULE Spec2Model ----------------------------
(***************************************************************************)
(* A model of the derived-network-model core of tailscale_tui              *)
(* (src/ts_backend.py): the bandwidth metrics store (BandwidthMonitor),    *)
(* the ping metrics store (PingMonitor) and its statistics, the quality    *)
(* classifier, the topology builder (get_network_topology), the map and    *)
(* graph renderers and the geo heuristics; and of the continuous ping of   *)
(* AdvancedPingScreen and the refreshes, the topology cache and the event  *)
(* loop of TailscaleDashboard and NetworkMapScreen (src/main.py).          *)
(*                                                                         *)
(* Conventions.                                                            *)
(*  - A Python dict with optional keys is a record with a field "keys"     *)
(*    (the set of keys the dict holds) or a field "present"; a key that is *)
(*    absent holds a fixed filler value that no definition reads.          *)
(*  - A float rate is an exact rational [n, d] in lowest terms, d > 0.     *)
(*  - time.time() is an integer number of clock ticks.                     *)
(*  - A raised exception is the result record with raised = TRUE.          *)
(***************************************************************************)
EXTENDS Integers, Sequences, FiniteSets, TLC

VARIABLES
    \* BandwidthMonitor (src/ts_backend.py:722-850)
    psutil_available,    \* self.psutil_available
    previous_stats,      \* self.previous_stats: interface -> counters
    bandwidth_history,   \* self.bandwidth_history: interface -> three lists
    bw_result,           \* the value returned by the last call
    bw_call,             \* the last call: its name and what the collaborators gave it
    bw_points,           \* interface -> number of rate points appended so far
    \* PingMonitor (src/ts_backend.py:1002-1093)
    ping_history,        \* self.ping_history: hostname -> list of records
    ping_result,         \* the record returned by the last call
    ping_call,           \* the last call: its hostname and what the probe did
    ping_calls,          \* hostname -> number of ping_host_with_stats calls so far
    clock,               \* time.time(), in ticks
    \* Quality classifier and topology builder (src/ts_backend.py:30-159, 376-387)
    quality_call,        \* the last get_connection_quality call and its result
    topology,            \* what the last get_network_topology call gave
    topo_input,          \* what the collaborators gave that call
    \* Statistics (src/ts_backend.py:1102-1147, 1222-1308)
    trend_call,          \* the last calculate_trend call and its result
    ping_stats,          \* what get_ping_statistics gave, when it was the last call
    compare_call,        \* the last get_multi_ping_comparison call and its result
    \* Renderers (src/ts_backend.py:400-668, 852-928)
    map_call,            \* the last map rendering call and the canvas it gave
    graph_call,          \* the last generate_ascii_graph call and its result
    line_call,           \* a draw_line call: its arguments, its locals, where it is
    \* Geo heuristics (src/ts_backend.py:161-338)
    location_call,       \* the last get_peer_location call and its result
    local_call,          \* the last get_local_location call and its result
    \* AdvancedPingScreen (src/main.py:640-888)
    continuous_running,  \* self.continuous_running
    selected_target,     \* self.selected_target ("" is None)
    ping_count,          \* self.ping_count
    loops,               \* the start_continuous_ping tasks created: where each is
    dismissed,           \* whether the screen was dismissed, and what a query does then
    rounds_begun,        \* number of rounds begun (line 846) by all tasks so far
    stop_pending,        \* a stop was requested and no start was requested after it
    \* TailscaleDashboard, NetworkMapScreen (src/main.py:482-530, 904-1246)
    dash_clock,          \* time.time(), in seconds
    current_view,        \* self.current_view
    topology_cache,      \* self._topology_cache
    topology_cache_time, \* self._topology_cache_time
    app_topology_data,   \* TailscaleDashboard.topology_data
    map_topology_data,   \* NetworkMapScreen.topology_data
    event_loop,          \* what the event loop thread runs, and the operation in it
    build,               \* the get_network_topology call in progress and its dict
    topology_tasks,      \* update_topology_async tasks created and not yet run
    cache_call,          \* the last get_cached_topology call that returned or raised
    probes_at            \* current_time of the last cached build that issued probes

bw_vars == <<psutil_available, previous_stats, bandwidth_history, bw_result,
             bw_call, bw_points>>

ping_vars == <<ping_history, ping_result, ping_call, ping_calls, clock>>

topo_vars == <<quality_call, topology, topo_input>>

analysis_vars == <<trend_call, ping_stats, compare_call>>

render_vars == <<map_call, graph_call, line_call>>

geo_vars == <<location_call, local_call>>

cont_vars == <<continuous_running, selected_target, ping_count, loops, dismissed,
               rounds_begun, stop_pending>>

dash_vars == <<dash_clock, current_view, topology_cache, topology_cache_time,
               app_topology_data, map_topology_data, event_loop, build, topology_tasks,
               cache_call, probes_at>>

vars == <<bw_vars, ping_vars, topo_vars, analysis_vars, render_vars, geo_vars,
          cont_vars, dash_vars>>

-----------------------------------------------------------------------------
(* Bounds of the model *)

\* Capacity of a bandwidth history. The code sets self.max_history_points = 50
\* (src/ts_backend.py:726); the trimming code reads only this attribute, and the
\* model runs it at a small capacity so that overflow is reached.
bw_max_history_points == 3
\* At most MaxPoints rate points are produced over all interfaces.
MaxPoints == 5

\* Capacity of a ping history. The code sets self.max_history_points = 100
\* (src/ts_backend.py:1006); the model runs the same code at a small capacity.
ping_max_history_points == 3
\* At most MaxPingCalls calls of ping_host_with_stats are made.
MaxPingCalls == 5
\* time.time() of the ping store lies in 0..MaxClock.
MaxClock == 1

\* The latencies given to the quality classifier lie in 0..MaxLatency (ms).
MaxLatency == 120
\* The status lists at most MaxPeers peers.
MaxPeers == 2
\* A list given to calculate_trend holds at most MaxTrendLen latencies.
MaxTrendLen == 4
\* get_multi_ping_comparison is given at most MaxCompared hostnames.
MaxCompared == 2

\* Longest series handed to generate_ascii_graph.
MaxSeries == 3

\* Number of start_continuous_ping tasks created.
MaxTasks == 4

\* Calls made per store in a session that uses two keys of each store.
MaxSharedCalls == 2
MaxDashClock == 20
MaxTopologyTasks == 2
MaxOnline == 2

\* The values a cumulative byte counter read from the OS takes.
ByteValues == {0, 3}
\* The values time.time() takes, in clock ticks.
Timestamps == {0, 2}

\* The keys of the per-interface maps, and the interfaces that
\* get_tailscale_interface finds on this host.
Interfaces == {"tailscale0", "utun3"}
FoundInterfaces == {"tailscale0"}
NoInterface == "None"

-----------------------------------------------------------------------------
(* Helpers *)

RECURSIVE GCD(_, _)
GCD(a, b) == IF b = 0 THEN a ELSE GCD(b, a % b)

Abs(x) == IF x < 0 THEN -x ELSE x

\* a / b as Python's true division computes it, for b > 0, kept exact.
TrueDiv(a, b) ==
    LET g == GCD(Abs(a), b)
    IN  [n |-> a \div g, d |-> b \div g]

Zero == [n |-> 0, d |-> 1]

Min(a, b) == IF a < b THEN a ELSE b
Max(a, b) == IF a > b THEN a ELSE b

\* max(0, x) for a rate x.
Max0(x) == IF x.n > 0 THEN x ELSE Zero

\* s[-n:] for n >= 1: the last n elements of s (all of s when it is shorter).
LastN(s, n) ==
    IF Len(s) <= n THEN s ELSE SubSeq(s, Len(s) - n + 1, Len(s))

RECURSIVE SumOver(_, _)
SumOver(f, S) ==
    IF S = {} THEN 0
    ELSE LET x == CHOOSE y \in S : TRUE
         IN  f[x] + SumOver(f, S \ {x})

-----------------------------------------------------------------------------
(* BandwidthMonitor *)

\* The {} that get_interface_stats returns when the counters cannot be read,
\* and the absence of an interface from previous_stats.
NoStats == [present |-> FALSE, bytes_sent |-> 0, bytes_recv |-> 0, timestamp |-> 0]

\* What psutil.net_io_counters and time.time() can give for one interface.
CounterReads ==
    [present : {TRUE}, bytes_sent : ByteValues, bytes_recv : ByteValues,
     timestamp : Timestamps]

\* The absence of an interface from bandwidth_history. The code creates the entry
\* right before its first append, so an entry that exists is never empty.
NoHistory == [upload |-> <<>>, download |-> <<>>, timestamps |-> <<>>]

NoResult == [keys |-> {}, upload_bps |-> Zero, download_bps |-> Zero,
             error |-> "", interface |-> "",
             upload_history |-> <<>>, download_history |-> <<>>]

NoCall == [op |-> "none", interface |-> NoInterface, read |-> NoStats]

ErrorResult(msg) ==
    [NoResult EXCEPT !.keys = {"upload_bps", "download_bps", "error"},
                     !.error = msg]

\* get_interface_stats(interface), where read is what the counter read gives:
\* the counters, or NoStats when the read raises or lacks the interface.
get_interface_stats(read) ==
    IF ~psutil_available THEN NoStats ELSE read

\* "if not current_stats", line 786.
StatsMissingMutant(current_stats) == FALSE

StatsMissing(current_stats) == ~current_stats.present

\* "if interface in self.previous_stats", line 791.
HasPreviousMutant(interface) == TRUE

HasPrevious(interface) == previous_stats[interface].present

\* The trimming of one history list, lines 813-816.
TrimmedMutant(s) ==
    IF Len(s) > bw_max_history_points THEN SubSeq(s, 1, bw_max_history_points) ELSE s

Trimmed(s) ==
    IF Len(s) > bw_max_history_points THEN LastN(s, bw_max_history_points) ELSE s

\* The rate that calculate_bandwidth returns, lines 797-798 and 819-820.
ReturnedRate(cur, prev, time_diff) == TrueDiv(cur - prev, time_diff)

\* The rate that calculate_bandwidth stores, lines 808-809.
StoredRate(cur, prev, time_diff) == Max0(TrueDiv(cur - prev, time_diff))

\* calculate_bandwidth(interface), where read is what the counter read gives.
calculate_bandwidth(interface, read) ==
    LET current_stats == get_interface_stats(read)
        prev_stats    == previous_stats[interface]
        time_diff     == current_stats.timestamp - prev_stats.timestamp
        history       == bandwidth_history[interface]
        appended      ==
            [upload     |-> Trimmed(Append(history.upload,
                               StoredRate(current_stats.bytes_sent,
                                          prev_stats.bytes_sent, time_diff))),
             download   |-> Trimmed(Append(history.download,
                               StoredRate(current_stats.bytes_recv,
                                          prev_stats.bytes_recv, time_diff))),
             timestamps |-> Trimmed(Append(history.timestamps,
                               current_stats.timestamp))]
    IN
    IF ~psutil_available THEN
        /\ bw_result' = ErrorResult("psutil not available")
        /\ UNCHANGED <<previous_stats, bandwidth_history, bw_points>>
    ELSE IF StatsMissing(current_stats) THEN
        /\ bw_result' = ErrorResult("No interface stats")
        /\ UNCHANGED <<previous_stats, bandwidth_history, bw_points>>
    ELSE IF HasPrevious(interface) /\ time_diff > 0 THEN
        /\ previous_stats' = [previous_stats EXCEPT ![interface] = current_stats]
        /\ bandwidth_history' = [bandwidth_history EXCEPT ![interface] = appended]
        /\ bw_points' = [bw_points EXCEPT ![interface] = @ + 1]
        /\ bw_result' =
             [keys |-> {"upload_bps", "download_bps", "upload_history",
                        "download_history", "interface"},
              upload_bps |-> ReturnedRate(current_stats.bytes_sent,
                                          prev_stats.bytes_sent, time_diff),
              download_bps |-> ReturnedRate(current_stats.bytes_recv,
                                            prev_stats.bytes_recv, time_diff),
              error |-> "",
              interface |-> interface,
              upload_history |-> appended.upload,
              download_history |-> appended.download]
    ELSE
        \* First measurement - store but return zero
        /\ previous_stats' = [previous_stats EXCEPT ![interface] = current_stats]
        /\ bw_result' = [NoResult EXCEPT
                            !.keys = {"upload_bps", "download_bps", "interface"},
                            !.interface = interface]
        /\ UNCHANGED <<bandwidth_history, bw_points>>

\* What the counter read gives: it is attempted only when psutil is there.
CounterReadOutcomes ==
    IF psutil_available THEN CounterReads \cup {NoStats} ELSE {NoStats}

\* A direct call of BandwidthMonitor.calculate_bandwidth.
CalculateBandwidth ==
    /\ SumOver(bw_points, Interfaces) < MaxPoints
    /\ \E interface \in FoundInterfaces, read \in CounterReadOutcomes :
         /\ bw_call' = [op |-> "calculate_bandwidth", interface |-> interface,
                        read |-> read]
         /\ calculate_bandwidth(interface, read)
    /\ UNCHANGED <<psutil_available, ping_vars, topo_vars, analysis_vars, render_vars,
                 geo_vars, cont_vars, dash_vars>>

\* A session in which both interfaces are sampled: the same call, over the
\* reads whose two counters are equal.
SharedReads == {r \in CounterReads : r.bytes_sent = r.bytes_recv}

CalculateEitherBandwidth ==
    /\ SumOver(bw_points, Interfaces) < MaxSharedCalls
    /\ \E interface \in Interfaces, read \in SharedReads :
         /\ bw_call' = [op |-> "calculate_bandwidth", interface |-> interface,
                        read |-> read]
         /\ calculate_bandwidth(interface, read)
    /\ UNCHANGED <<psutil_available, ping_vars, topo_vars, analysis_vars, render_vars,
                 geo_vars, cont_vars, dash_vars>>

\* What get_tailscale_interface gives: an interface name, or None (always None
\* without psutil, line 731).
get_tailscale_interface ==
    IF psutil_available THEN FoundInterfaces \cup {NoInterface} ELSE {NoInterface}

\* BandwidthMonitor.get_bandwidth_data.
GetBandwidthData ==
    /\ SumOver(bw_points, Interfaces) < MaxPoints
    /\ \E interface \in get_tailscale_interface :
       \E read \in (IF interface = NoInterface THEN {NoStats} ELSE CounterReadOutcomes) :
         /\ bw_call' = [op |-> "get_bandwidth_data", interface |-> interface,
                        read |-> read]
         /\ IF ~psutil_available THEN
                /\ bw_result' =
                     [ErrorResult("psutil library not installed. Run: pip install psutil")
                        EXCEPT !.keys = {"error", "upload_bps", "download_bps", "interface"},
                               !.interface = "unavailable"]
                /\ UNCHANGED <<previous_stats, bandwidth_history, bw_points>>
            ELSE IF interface = NoInterface THEN
                /\ bw_result' =
                     [ErrorResult("Tailscale interface not found")
                        EXCEPT !.keys = {"error", "upload_bps", "download_bps", "interface"},
                               !.interface = "unknown"]
                /\ UNCHANGED <<previous_stats, bandwidth_history, bw_points>>
            ELSE calculate_bandwidth(interface, read)
    /\ UNCHANGED <<psutil_available, ping_vars, topo_vars, analysis_vars, render_vars,
                 geo_vars, cont_vars, dash_vars>>

InitBandwidth ==
    /\ psutil_available \in BOOLEAN
    /\ previous_stats = [i \in Interfaces |-> NoStats]
    /\ bandwidth_history = [i \in Interfaces |-> NoHistory]
    /\ bw_result = NoResult
    /\ bw_call = NoCall
    /\ bw_points = [i \in Interfaces |-> 0]

-----------------------------------------------------------------------------
(* PingMonitor *)

\* The keys of ping_history, and the hostnames that are probed.
PingHosts == {"alpha", "beta"}
ProbedHosts == {"alpha"}

\* The latencies (ms) that the pattern time[=\s]+(\d+\.?\d*)\s*ms finds in the
\* output of one probe of exit status 0: none, or several.
LatencyMatches == {<<>>, <<12, 31>>}

\* What the pattern (\d+)%\s+packet\s+loss finds: NoMatch, or a percentage.
NoMatch == -1
LossMatches == {NoMatch, 50}

\* What subprocess.run does in one call: it returns with exit status 0 or not,
\* raises TimeoutExpired, or raises another exception (the tailscale binary is
\* missing, the process cannot be started).
ProbeOutcomes ==
    [kind : {"exit0"}, latencies : LatencyMatches, loss : LossMatches]
    \cup [kind : {"nonzero", "timeout", "error"}, latencies : {<<>>},
          loss : {NoMatch}]

\* Optional values: None, and a value that is there.
None == [some |-> FALSE, v |-> Zero]
Some(x) == [some |-> TRUE, v |-> x]

RECURSIVE SeqSum(_)
SeqSum(s) == IF s = <<>> THEN 0 ELSE s[1] + SeqSum(Tail(s))

SeqMin(s) == CHOOSE x \in {s[k] : k \in 1..Len(s)} :
                \A y \in {s[k] : k \in 1..Len(s)} : x <= y
SeqMax(s) == CHOOSE x \in {s[k] : k \in 1..Len(s)} :
                \A y \in {s[k] : k \in 1..Len(s)} : x >= y

\* The record of lines 1022-1049: the probe returned.
ParsedRecord(hostname, outcome) ==
    LET ok  == outcome.kind = "exit0"
        lat == IF ok THEN outcome.latencies ELSE <<>>
    IN  [hostname    |-> hostname,
         timestamp   |-> clock,
         success     |-> ok,
         latencies   |-> lat,
         packet_loss |-> IF ok /\ outcome.loss # NoMatch THEN outcome.loss ELSE 0,
         avg_latency |-> IF lat # <<>> THEN Some(TrueDiv(SeqSum(lat), Len(lat)))
                         ELSE None,
         min_latency |-> IF lat # <<>> THEN Some(TrueDiv(SeqMin(lat), 1)) ELSE None,
         max_latency |-> IF lat # <<>> THEN Some(TrueDiv(SeqMax(lat), 1)) ELSE None,
         raw_output  |-> "output"]

\* The record of lines 1064-1074 and 1083-1093: the probe raised.
FailedRecord(hostname, raw_output) ==
    [hostname    |-> hostname,
     timestamp   |-> clock,
     success     |-> FALSE,
     latencies   |-> <<>>,
     packet_loss |-> 100,
     avg_latency |-> None,
     min_latency |-> None,
     max_latency |-> None,
     raw_output  |-> raw_output]

\* No call has returned yet.
NoRecord ==
    [hostname |-> "", timestamp |-> 0, success |-> FALSE, latencies |-> <<>>,
     packet_loss |-> 0, avg_latency |-> None, min_latency |-> None,
     max_latency |-> None, raw_output |-> ""]

NoPingCall == [hostname |-> "",
               outcome |-> [kind |-> "none", latencies |-> <<>>, loss |-> NoMatch]]

\* The trailing windows of the availability figures, line 1139. A clock tick
\* of the ping store is one hour.
Periods == {"1_hour", "24_hours", "7_days"}
PeriodTicks(period) ==
    IF period = "1_hour" THEN 1 ELSE IF period = "24_hours" THEN 24 ELSE 168

\* A statistics dict: keys is the set of keys it holds.
EmptyStats ==
    [keys |-> {}, hostname |-> "", total_pings |-> 0, successful_pings |-> 0,
     failed_pings |-> 0, success_rate |-> Zero, packet_loss_rate |-> Zero,
     avg_latency |-> Zero, min_latency |-> 0, max_latency |-> 0,
     latency_stddev |-> [sqrt_of |-> Zero], recent_trend |-> "",
     availability |-> [period \in Periods |-> None]]

\* get_ping_statistics was not the last call.
NoStatsCall == [called |-> FALSE, hostname |-> "", stats |-> EmptyStats]

\* "Keep only recent history", lines 1058-1059.
KeepRecent(history) ==
    IF Len(history) > ping_max_history_points
    THEN LastN(history, ping_max_history_points)
    ELSE history

ping_host_with_stats_mutant(hostname, outcome) ==
    LET ping_data == ParsedRecord(hostname, outcome)
    IN  /\ ping_history' = [h \in PingHosts |-> KeepRecent(Append(ping_history[h], ping_data))]
        /\ ping_result' = ping_data

\* ping_host_with_stats(hostname), where outcome is what subprocess.run does.
\* A hostname absent from ping_history is the empty list: the code creates the
\* list right before its first append.
ping_host_with_stats(hostname, outcome) ==
    IF outcome.kind \in {"exit0", "nonzero"} THEN
        \* lines 1019-1061
        LET ping_data == ParsedRecord(hostname, outcome)
        IN  /\ ping_history' = [ping_history EXCEPT
                  ![hostname] = KeepRecent(Append(@, ping_data))]
            /\ ping_result' = ping_data
    ELSE IF outcome.kind = "timeout" THEN
        \* except subprocess.TimeoutExpired, lines 1063-1080
        LET ping_data == FailedRecord(hostname, "Ping timed out")
        IN  /\ ping_history' = [ping_history EXCEPT ![hostname] = Append(@, ping_data)]
            /\ ping_result' = ping_data
    ELSE
        \* except Exception, lines 1082-1093
        /\ ping_result' = FailedRecord(hostname, "Error")
        /\ UNCHANGED ping_history

\* The same call as a function of the store: the record it returns and the
\* store it leaves, for a caller that makes several calls in a row.
ping_host_advanced(history, hostname, outcome) ==
    IF outcome.kind \in {"exit0", "nonzero"} THEN
        [ping_data |-> ParsedRecord(hostname, outcome),
         ping_history |-> [history EXCEPT ![hostname] =
                             KeepRecent(Append(@, ParsedRecord(hostname, outcome)))]]
    ELSE IF outcome.kind = "timeout" THEN
        [ping_data |-> FailedRecord(hostname, "Ping timed out"),
         ping_history |-> [history EXCEPT ![hostname] =
                             Append(@, FailedRecord(hostname, "Ping timed out"))]]
    ELSE
        [ping_data |-> FailedRecord(hostname, "Error"), ping_history |-> history]

PingHostWithStats ==
    /\ SumOver(ping_calls, PingHosts) < MaxPingCalls
    /\ \E hostname \in ProbedHosts, outcome \in ProbeOutcomes :
         /\ ping_call' = [hostname |-> hostname, outcome |-> outcome]
         /\ ping_calls' = [ping_calls EXCEPT ![hostname] = @ + 1]
         /\ ping_host_with_stats(hostname, outcome)
    /\ ping_stats' = NoStatsCall
    /\ UNCHANGED <<clock, trend_call, compare_call, bw_vars, topo_vars, render_vars,
                 geo_vars, cont_vars, dash_vars>>

\* A session in which both hostnames are probed: the same call, over fewer
\* outcomes of the probe.
SharedOutcomes ==
    {[kind |-> "exit0", latencies |-> <<12, 31>>, loss |-> NoMatch],
     [kind |-> "timeout", latencies |-> <<>>, loss |-> NoMatch]}

PingEitherHost ==
    /\ SumOver(ping_calls, PingHosts) < MaxSharedCalls
    /\ \E hostname \in PingHosts, outcome \in SharedOutcomes :
         /\ ping_call' = [hostname |-> hostname, outcome |-> outcome]
         /\ ping_calls' = [ping_calls EXCEPT ![hostname] = @ + 1]
         /\ ping_host_with_stats(hostname, outcome)
    /\ ping_stats' = NoStatsCall
    /\ UNCHANGED <<clock, trend_call, compare_call, bw_vars, topo_vars, render_vars,
                 geo_vars, cont_vars, dash_vars>>

\* Time passes.
Tick ==
    /\ clock < MaxClock
    /\ clock' = clock + 1
    /\ ping_stats' = NoStatsCall
    /\ UNCHANGED <<ping_history, ping_result, ping_call, ping_calls, trend_call,
                 compare_call, bw_vars, topo_vars, render_vars, geo_vars, cont_vars, dash_vars>>

InitPing ==
    /\ ping_history = [h \in PingHosts |-> <<>>]
    /\ ping_result = NoRecord
    /\ ping_call = NoPingCall
    /\ ping_calls = [h \in PingHosts |-> 0]
    /\ clock = 0

-----------------------------------------------------------------------------
(* Quality classifier *)

\* get_connection_quality(latency), latency an optional number of ms.
get_connection_quality_mutant(latency) ==
    IF ~latency.some THEN "unknown"
    ELSE IF latency.v <= 20 THEN "excellent"
    ELSE IF latency.v <= 50 THEN "good"
    ELSE IF latency.v <= 100 THEN "fair"
    ELSE "poor"

get_connection_quality(latency) ==
    IF ~latency.some THEN "unknown"
    ELSE IF latency.v < 20 THEN "excellent"
    ELSE IF latency.v < 50 THEN "good"
    ELSE IF latency.v < 100 THEN "fair"
    ELSE "poor"

\* An optional latency: None, or a number of ms.
NoLatency == [some |-> FALSE, v |-> 0]
Latency(ms) == [some |-> TRUE, v |-> ms]

NoQualityCall == [called |-> FALSE, latency |-> NoLatency, quality |-> ""]

\* A call of get_connection_quality.
GetConnectionQuality ==
    /\ \E latency \in {Latency(ms) : ms \in 0..MaxLatency} \cup {NoLatency} :
         quality_call' = [called |-> TRUE, latency |-> latency,
                          quality |-> get_connection_quality(latency)]
    /\ UNCHANGED <<topology, topo_input, bw_vars, ping_vars, analysis_vars, render_vars,
                 geo_vars, cont_vars, dash_vars>>

-----------------------------------------------------------------------------
(* Topology builder *)

\* A string that is absent from its JSON object.
Absent == "<absent>"

\* The peers of a status document, in the order of the "Peer" object. Of a peer
\* the builder reads HostName, Online, Relay and Endpoints; the other fields
\* (TailscaleIPs, OS, ExitNode, RxBytes, TxBytes, LastSeen) are copied into the
\* node and read by nothing modelled here.
PeerHostNames == {"alpha", "beta"}
PeerPaths == {[Relay |-> "", Endpoints |-> <<>>],
              [Relay |-> "nyc", Endpoints |-> <<>>],
              [Relay |-> "", Endpoints |-> <<"192.168.1.7:41641">>]}
PeerRecords ==
    {[HostName |-> h, Online |-> o, Relay |-> p.Relay, Endpoints |-> p.Endpoints] :
        h \in PeerHostNames, o \in BOOLEAN, p \in PeerPaths}
PeerMaps == UNION {[1..n -> PeerRecords] : n \in 0..MaxPeers}

\* What run_cmd(["tailscale", "status", "--json"]) gives get_peers: text that is
\* no JSON ("unreachable": run_cmd's "Error: ..." or empty output; "nonjson":
\* other text), or a JSON object whose "Peer" is absent, null or a map (field
\* Peer says which, field map holds the map).
NotJson == {"unreachable", "nonjson"}
PeerReads ==
    [kind : NotJson, Peer : {"absent"}, map : {<<>>}]
    \cup [kind : {"json"}, Peer : {"absent", "null"}, map : {<<>>}]
    \cup [kind : {"json"}, Peer : {"map"}, map : PeerMaps]

\* What the same command gives get_self_info: no JSON, or a JSON object with a
\* BackendState and a "Self" that is absent, null or an object (field Self says
\* which) whose HostName is there or not.
SelfHostNames == {"alpha", Absent}
SelfReads ==
    [kind : NotJson, BackendState : {Absent}, Self : {"absent"}, HostName : {Absent}]
    \cup [kind : {"json"}, BackendState : {"Running", "Stopped"},
          Self : {"absent", "null"}, HostName : {Absent}]
    \cup [kind : {"json"}, BackendState : {"Running", "Stopped"},
          Self : {"object"}, HostName : SelfHostNames]

\* What "tailscale ping -c 1" prints: whether it holds "pong", and the number
\* that the latency patterns of lines 121-123 find (NoMatch: none).
PingOutputs ==
    [pong : {FALSE}, time : {NoMatch}]
    \cup [pong : {TRUE}, time : {NoMatch, 0, 25}]

\* ping_with_latency(hostname), where output is what the probe printed.
ping_with_latency(output) ==
    IF ~output.pong THEN [success |-> FALSE, latency |-> NoLatency]
    ELSE IF output.time # NoMatch
         THEN [success |-> TRUE, latency |-> Latency(output.time)]
         ELSE [success |-> TRUE, latency |-> NoLatency]

\* get_connection_type(peer), lines 367-374.
get_connection_type(peer) ==
    IF peer.relay # "" THEN "relay"
    ELSE IF peer.endpoints # <<>> THEN "direct"
    ELSE "unknown"

\* The truth value Python gives an optional float: None and 0.0 are false.
Truthy(latency) == latency.some /\ latency.v # 0

\* "get_connection_quality(latency) if latency else 'unknown'", line 152.
EdgeQuality(latency) ==
    IF Truthy(latency) THEN get_connection_quality(latency) ELSE "unknown"

\* The node that get_peers builds of the k-th peer of the map, lines 39-51.
PeerNode(k, peer) ==
    [id |-> <<"peer", k>>, hostname |-> peer.HostName, online |-> peer.Online,
     relay |-> peer.Relay, endpoints |-> peer.Endpoints]

\* get_peers(): the peer nodes, or an exception. data.get("Peer", {}) is {} for
\* an absent "Peer" and None for a null one, and None has no items().
get_peers(read) ==
    IF read.kind \in NotJson THEN [raised |-> FALSE, peers |-> <<>>]
    ELSE IF read.Peer = "absent" THEN [raised |-> FALSE, peers |-> <<>>]
    ELSE IF read.Peer = "null" THEN [raised |-> TRUE, peers |-> <<>>]
    ELSE [raised |-> FALSE,
          peers  |-> [k \in DOMAIN read.map |-> PeerNode(k, read.map[k])]]

SelfNode(id, hostname, online) ==
    [id |-> id, hostname |-> hostname, online |-> online,
     relay |-> "", endpoints |-> <<>>]

NoNode == SelfNode(<<"none", 0>>, "", FALSE)

\* get_self_info(): the self node, or an exception. data.get("Self", {}) is {}
\* for an absent "Self" and None for a null one, and None has no get().
get_self_info(read) ==
    IF read.kind \in NotJson
    THEN [raised |-> FALSE, node |-> SelfNode(<<"self", 0>>, "localhost", TRUE)]
    ELSE IF read.BackendState = "Stopped"
    THEN [raised |-> FALSE,
          node |-> SelfNode(<<"self", 0>>, "localhost (Tailscale stopped)", FALSE)]
    ELSE IF read.Self = "null" THEN [raised |-> TRUE, node |-> NoNode]
    ELSE IF read.Self = "absent" \/ read.HostName = Absent
    THEN [raised |-> FALSE, node |-> SelfNode(<<"key", 0>>, "localhost", TRUE)]
    ELSE [raised |-> FALSE, node |-> SelfNode(<<"key", 0>>, read.HostName, TRUE)]

\* connections[key] = edge, on a dict held as a function.
DictPut(d, key, value) ==
    [x \in DOMAIN d \cup {key} |-> IF x = key THEN value ELSE d[x]]

EmptyDict == [x \in {} |-> 0]

\* The loop of lines 143-153 from peer k on, where outputs[k] is what the probe
\* of peer k printed. The key f"{source}->{target}" is the pair of the two.
RECURSIVE Connections(_, _, _, _, _)
Connections(self_info, peers, outputs, k, connections) ==
    IF k > Len(peers) THEN connections
    ELSE IF ~peers[k].online
    THEN Connections(self_info, peers, outputs, k + 1, connections)
    ELSE LET peer  == peers[k]
             probe == ping_with_latency(outputs[k])
             edge  == [source |-> self_info.hostname,
                       target |-> peer.hostname,
                       status |-> IF probe.success THEN "connected" ELSE "unreachable",
                       latency |-> probe.latency,
                       connection_type |-> get_connection_type(peer),
                       quality |-> EdgeQuality(probe.latency)]
         IN  Connections(self_info, peers, outputs, k + 1,
                 DictPut(connections, <<self_info.hostname, peer.hostname>>, edge))

RaisedTopology ==
    [raised |-> TRUE, nodes |-> <<>>, connections |-> EmptyDict, center_node |-> ""]

\* get_network_topology(), lines 133-159.
get_network_topology(peer_read, self_read, outputs) ==
    LET got_peers == get_peers(peer_read)
        got_self  == get_self_info(self_read)
    IN  IF got_peers.raised \/ got_self.raised THEN RaisedTopology
        ELSE [raised |-> FALSE,
              nodes |-> <<got_self.node>> \o got_peers.peers,
              connections |-> Connections(got_self.node, got_peers.peers, outputs,
                                          1, EmptyDict),
              center_node |-> got_self.node.hostname]

\* The peers that a build probes: the online peers of a status that get_peers
\* could read, when get_self_info did not raise before the loop.
ProbedPeers(peer_read, self_read) ==
    IF get_peers(peer_read).raised \/ get_self_info(self_read).raised THEN {}
    ELSE {k \in DOMAIN get_peers(peer_read).peers : get_peers(peer_read).peers[k].online}

NoOutput == [pong |-> FALSE, time |-> NoMatch]

\* The probes that the loop of lines 143-146 issues from peer k on, in order:
\* one ping_with_latency(peer["hostname"]) for each peer whose online is true.
RECURSIVE Probes(_, _)
Probes(peers, k) ==
    IF k > Len(peers) THEN <<>>
    ELSE IF ~peers[k].online THEN Probes(peers, k + 1)
    ELSE <<[peer |-> k, hostname |-> peers[k].hostname]>> \o Probes(peers, k + 1)

\* The probes of a whole build: none when a status read raised before the loop.
IssuedProbes(peer_read, self_read) ==
    IF get_peers(peer_read).raised \/ get_self_info(self_read).raised THEN <<>>
    ELSE Probes(get_peers(peer_read).peers, 1)

\* A call of get_network_topology. The builder keeps no state between calls, so
\* every call is explored from the initial state.
GetNetworkTopology ==
    /\ ~topo_input.called
    /\ \E peer_read \in PeerReads, self_read \in SelfReads :
       \E probed \in [ProbedPeers(peer_read, self_read) -> PingOutputs] :
         LET outputs == [k \in 1..MaxPeers |->
                            IF k \in DOMAIN probed THEN probed[k] ELSE NoOutput]
         IN  /\ topo_input' = [called |-> TRUE, peer_read |-> peer_read,
                               self_read |-> self_read, outputs |-> outputs,
                               probes |-> IssuedProbes(peer_read, self_read)]
             /\ topology' = get_network_topology(peer_read, self_read, outputs)
    /\ UNCHANGED <<quality_call, bw_vars, ping_vars, analysis_vars, render_vars, geo_vars,
                 cont_vars, dash_vars>>

InitTopology ==
    /\ quality_call = NoQualityCall
    /\ topology = RaisedTopology
    /\ topo_input = [called |-> FALSE,
                     peer_read |-> [kind |-> "unreachable", Peer |-> "absent",
                                    map |-> <<>>],
                     self_read |-> [kind |-> "unreachable", BackendState |-> Absent,
                                    Self |-> "absent", HostName |-> Absent],
                     outputs |-> [k \in 1..MaxPeers |-> NoOutput],
                     probes |-> <<>>]

-----------------------------------------------------------------------------
(* Statistics over latencies *)

\* Exact arithmetic on the rationals [n, d], d > 0.
RatOf(k) == [n |-> k, d |-> 1]
RatSub(a, b) == TrueDiv(a.n * b.d - b.n * a.d, a.d * b.d)
\* a / b for b > 0.
RatQuot(a, b) == TrueDiv(a.n * b.d, a.d * b.n)
RatTimes(a, k) == TrueDiv(a.n * k, a.d)
RatLess(a, b) == a.n * b.d < b.n * a.d

\* values[:len(values)//2] and values[len(values)//2:].
FirstHalf(values) == SubSeq(values, 1, Len(values) \div 2)
SecondHalf(values) == SubSeq(values, Len(values) \div 2 + 1, Len(values))

\* calculate_trend(values), values a list of latencies in ms.
calculate_trend(values) ==
    IF Len(values) < 3 THEN "insufficient_data"
    ELSE LET first_half  == TrueDiv(SeqSum(FirstHalf(values)), Len(values) \div 2)
             second_half == TrueDiv(SeqSum(SecondHalf(values)),
                                    Len(values) - Len(values) \div 2)
             diff_percent ==
                 IF first_half.n > 0
                 THEN RatTimes(RatQuot(RatSub(second_half, first_half), first_half), 100)
                 ELSE Zero
         IN  IF RatLess(RatOf(10), diff_percent) THEN "worsening"
             ELSE IF RatLess(diff_percent, RatOf(-10)) THEN "improving"
             ELSE "stable"

\* The latencies (ms) that a list given to calculate_trend holds.
TrendValues == {0, 10, 11, 12}

TrendInputs == UNION {[1..n -> TrendValues] : n \in 0..MaxTrendLen}

NoTrendCall == [called |-> FALSE, values |-> <<>>, trend |-> ""]

\* A call of calculate_trend. The function keeps no state between calls, so
\* every call is explored from the initial state.
CalculateTrend ==
    /\ ~trend_call.called
    /\ \E values \in TrendInputs :
         trend_call' = [called |-> TRUE, values |-> values,
                       trend |-> calculate_trend(values)]
    /\ UNCHANGED <<ping_stats, compare_call, bw_vars, ping_vars, topo_vars, render_vars, geo_vars, cont_vars, dash_vars>>

\* calculate_stddev(values): the square root of the variance, held as the
\* number it is the root of.
calculate_stddev(values) ==
    IF Len(values) < 2 THEN [sqrt_of |-> Zero]
    ELSE LET n == Len(values)
             S == SeqSum(values)
             squares == [k \in 1..n |-> (n * values[k] - S) * (n * values[k] - S)]
         IN  [sqrt_of |-> TrueDiv(SeqSum(squares), n * n * n)]

\* The pings that line 1110 takes as successful.
SuccessfulPings(history) ==
    SelectSeq(history, LAMBDA p : p.success /\ p.avg_latency.some)

\* all_latencies of lines 1111-1115.
RECURSIVE AllLatencies(_)
AllLatencies(pings) ==
    IF pings = <<>> THEN <<>>
    ELSE pings[1].latencies \o AllLatencies(Tail(pings))

\* "calculate_trend(all_latencies[-10:]) if len(all_latencies) >= 5 else
\* 'insufficient_data'", line 1136.
recent_trend(all_latencies) ==
    IF Len(all_latencies) >= 5 THEN calculate_trend(LastN(all_latencies, 10))
    ELSE "insufficient_data"

\* The availability of one trailing window, lines 1140-1145: None when no
\* record lies in the window.
Availability(history, now, period) ==
    LET period_pings == SelectSeq(history,
                           LAMBDA p : now - p.timestamp <= PeriodTicks(period))
        period_successful == Len(SelectSeq(period_pings, LAMBDA p : p.success))
    IN  IF period_pings = <<>> THEN None
        ELSE Some(TrueDiv(period_successful * 100, Len(period_pings)))

\* get_ping_statistics(hostname), where history is the list of the hostname
\* (empty when it has none) and now is time.time().
get_ping_statistics(hostname, history, now) ==
    IF history = <<>> THEN [EmptyStats EXCEPT !.keys = {"error"}]
    ELSE
        LET successful_count == Len(SuccessfulPings(history))
            all_latencies == AllLatencies(SuccessfulPings(history))
            total_pings == Len(history)
            failed_count == total_pings - successful_count
            availability == [period \in Periods |-> Availability(history, now, period)]
            counts == [EmptyStats EXCEPT
                         !.keys = {"hostname", "total_pings", "successful_pings",
                                   "failed_pings", "success_rate", "packet_loss_rate"}
                                  \cup {"availability_" \o period : period \in
                                           {q \in Periods : availability[q].some}},
                         !.hostname = hostname,
                         !.total_pings = total_pings,
                         !.successful_pings = successful_count,
                         !.failed_pings = failed_count,
                         !.success_rate = TrueDiv(successful_count * 100, total_pings),
                         !.packet_loss_rate = TrueDiv(failed_count * 100, total_pings),
                         !.availability = availability]
        IN  IF all_latencies = <<>> THEN counts
            ELSE [counts EXCEPT
                     !.keys = @ \cup {"avg_latency", "min_latency", "max_latency",
                                      "latency_stddev", "recent_trend"},
                     !.avg_latency = TrueDiv(SeqSum(all_latencies), Len(all_latencies)),
                     !.min_latency = SeqMin(all_latencies),
                     !.max_latency = SeqMax(all_latencies),
                     !.latency_stddev = calculate_stddev(all_latencies),
                     !.recent_trend = recent_trend(all_latencies)]

\* The latencies that the probes of a comparison parse, and what the probes do.
ComparedLatencyMatches == {<<>>, <<0>>, <<12, 31>>, <<40>>}
ComparedOutcomes ==
    [kind : {"exit0"}, latencies : ComparedLatencyMatches, loss : {NoMatch}]
    \cup [kind : {"nonzero", "timeout", "error"}, latencies : {<<>>},
          loss : {NoMatch}]

ComparedLists == UNION {[1..n -> PingHosts] : n \in 0..MaxCompared}

\* The loop of lines 1283-1284 from hostname k on: the results dict (a function
\* on the hostnames seen), and the store that the probes leave.
RECURSIVE PingAll(_, _, _, _, _)
PingAll(hostnames, outcomes, k, results, history) ==
    IF k > Len(hostnames) THEN [results |-> results, ping_history |-> history]
    ELSE LET done == ping_host_advanced(history, hostnames[k], outcomes[k])
         IN  PingAll(hostnames, outcomes, k + 1,
                     DictPut(results, hostnames[k], done.ping_data),
                     done.ping_history)

\* The keys of the results dict in the order a dict keeps: first insertion.
RECURSIVE DictKeys(_)
DictKeys(hostnames) ==
    IF hostnames = <<>> THEN <<>>
    ELSE LET rest == DictKeys(SubSeq(hostnames, 1, Len(hostnames) - 1))
             last == hostnames[Len(hostnames)]
         IN  IF \E k \in DOMAIN rest : rest[k] = last THEN rest
             ELSE Append(rest, last)

RatAdd(a, b) == TrueDiv(a.n * b.d + b.n * a.d, a.d * b.d)

RECURSIVE RatSum(_)
RatSum(s) == IF s = <<>> THEN Zero ELSE RatAdd(s[1], RatSum(Tail(s)))

\* min(s) and max(s) of a list of rationals.
RatMin(s) == CHOOSE x \in {s[k] : k \in DOMAIN s} :
                \A y \in {s[k] : k \in DOMAIN s} : ~RatLess(y, x)
RatMax(s) == CHOOSE x \in {s[k] : k \in DOMAIN s} :
                \A y \in {s[k] : k \in DOMAIN s} : ~RatLess(x, y)

\* The truth value Python gives an optional float average: None and 0.0 are
\* false.
TruthyAverage(avg) == avg.some /\ avg.v.n # 0

\* min(keys, key = ...) and max(keys, key = ...): the first key, in the order
\* of keys, whose value no other value is below (above).
FirstBy(keys, value, Better(_, _)) ==
    keys[CHOOSE k \in DOMAIN keys :
            /\ \A j \in DOMAIN keys : ~Better(value[keys[j]], value[keys[k]])
            /\ \A j \in 1..(k - 1) : Better(value[keys[k]], value[keys[j]])]

More(a, b) == RatLess(b, a)

\* A summary dict: keys is the set of keys it holds.
EmptySummary ==
    [keys |-> {}, total_hosts |-> 0, successful_hosts |-> 0, failed_hosts |-> 0,
     fastest_host |-> "", slowest_host |-> "", avg_latency_all |-> Zero,
     latency_range |-> Zero]

\* Lines 1286-1308: the summary of a results dict, or the TypeError that min()
\* raises when it compares an average that is None.
Summary(hostnames, results) ==
    LET successful_hosts == SelectSeq(DictKeys(hostnames),
                                      LAMBDA h : results[h].success)
        averages == [k \in DOMAIN successful_hosts |->
                        results[successful_hosts[k]].avg_latency]
        latencies == SelectSeq(averages, TruthyAverage)
        summary == [EmptySummary EXCEPT
                       !.keys = {"total_hosts", "successful_hosts", "failed_hosts"},
                       !.total_hosts = Len(hostnames),
                       !.successful_hosts = Len(successful_hosts),
                       !.failed_hosts = Len(hostnames) - Len(successful_hosts)]
        value == [h \in {successful_hosts[k] : k \in DOMAIN successful_hosts} |->
                     results[h].avg_latency.v]
        measured == [k \in DOMAIN latencies |-> latencies[k].v]
    IN  IF successful_hosts = <<>> \/ latencies = <<>>
        THEN [raised |-> FALSE, summary |-> summary]
        ELSE IF Len(successful_hosts) >= 2
                /\ \E k \in DOMAIN averages : ~averages[k].some
        THEN [raised |-> TRUE, summary |-> EmptySummary]
        ELSE [raised |-> FALSE,
              summary |-> [summary EXCEPT
                  !.keys = @ \cup {"fastest_host", "slowest_host", "avg_latency_all",
                                   "latency_range"},
                  !.fastest_host = FirstBy(successful_hosts, value, RatLess),
                  !.slowest_host = FirstBy(successful_hosts, value, More),
                  !.avg_latency_all = TrueDiv(RatSum(measured).n,
                                              RatSum(measured).d * Len(measured)),
                  !.latency_range = RatSub(RatMax(measured), RatMin(measured))]]

NoCompareCall ==
    [called |-> FALSE, hostnames |-> <<>>, results |-> EmptyDict, raised |-> FALSE,
     summary |-> EmptySummary]

\* A call of get_multi_ping_comparison(hostnames): one ping_host_advanced call
\* per hostname on the store of the module's PingMonitor, then the summary. The
\* result depends on nothing the store held before, so every call is explored
\* from the initial state.
GetMultiPingComparison ==
    /\ ~compare_call.called
    /\ \E hostnames \in ComparedLists :
       \E outcomes \in [DOMAIN hostnames -> ComparedOutcomes] :
         LET pinged == PingAll(hostnames, outcomes, 1, EmptyDict, ping_history)
             made   == Summary(hostnames, pinged.results)
         IN  /\ ping_history' = pinged.ping_history
             /\ ping_calls' = [h \in PingHosts |-> ping_calls[h] +
                                  Cardinality({k \in DOMAIN hostnames : hostnames[k] = h})]
             /\ IF hostnames = <<>> THEN UNCHANGED <<ping_result, ping_call>>
                ELSE /\ ping_result' = pinged.results[hostnames[Len(hostnames)]]
                     /\ ping_call' = [hostname |-> hostnames[Len(hostnames)],
                                      outcome |-> outcomes[Len(hostnames)]]
             /\ compare_call' = [called |-> TRUE, hostnames |-> hostnames,
                                 results |-> pinged.results, raised |-> made.raised,
                                 summary |-> made.summary]
    /\ ping_stats' = NoStatsCall
    /\ UNCHANGED <<clock, trend_call, bw_vars, topo_vars, render_vars, geo_vars,
                   cont_vars, dash_vars>>

\* A call of PingMonitor.get_ping_statistics.
GetPingStatistics ==
    /\ \E hostname \in ProbedHosts :
         ping_stats' = [called |-> TRUE, hostname |-> hostname,
                       stats |-> get_ping_statistics(hostname, ping_history[hostname],
                                                     clock)]
    /\ UNCHANGED <<ping_vars, trend_call, compare_call, bw_vars, topo_vars,
                   render_vars, geo_vars, cont_vars, dash_vars>>

InitAnalysis ==
    /\ trend_call = NoTrendCall
    /\ ping_stats = NoStatsCall
    /\ compare_call = NoCompareCall

-----------------------------------------------------------------------------
(* Map renderers *)

\* The characters of the strings that the renderers write cell by cell.
Chars(s) ==
    CASE s = "" -> <<>>
      [] s = "alpha" -> <<"a", "l", "p", "h", "a">>
      [] s = "beta" -> <<"b", "e", "t", "a">>
      [] s = "gamma" -> <<"g", "a", "m", "m", "a">>
      [] s = "US" -> <<"U", "S">>
      [] s = "??" -> <<"?", "?">>
      [] s = "Unknown" -> <<"U", "n", "k", "n", "o", "w", "n">>
      [] s = "New York" -> <<"N", "e", "w", " ", "Y", "o", "r", "k">>
      [] s = "Upload" -> <<"U", "p", "l", "o", "a", "d">>
      [] s = "No data" -> <<"N", "o", " ", "d", "a", "t", "a">>
      [] s = " B/s" -> <<" ", "B", "/", "s">>

\* s[:n].
Prefix(s, n) == SubSeq(s, 1, Min(n, Len(s)))

\* str.lower() of the OS names that a status reports.
Lower(s) ==
    CASE s = "macOS" -> "macos"
      [] s = "iOS" -> "ios"
      [] s = "Unknown" -> "unknown"
      [] OTHER -> s

\* The glyph literals of the source, by name, and len() of each literal as the
\* source file holds it.
Space == " "
CenterGlyph == "<center>"
OfflineGlyph == "<offline>"
ExitGlyph == "<exit>"
MobileGlyph == "<mobile>"
MacGlyph == "<mac>"
WindowsGlyph == "<windows>"
LinuxGlyph == "<linux>"
GenericGlyph == "<generic>"
ExcellentLine == "<line excellent>"
GoodLine == "<line good>"
FairLine == "<line fair>"
PoorLine == "<line poor>"
UnknownLine == "?"

LineGlyphs == {ExcellentLine, GoodLine, FairLine, PoorLine, UnknownLine}

GlyphLen(ch) ==
    IF ch \in {CenterGlyph, OfflineGlyph, ExitGlyph, GenericGlyph, ExcellentLine,
               GoodLine, FairLine} THEN 3
    ELSE IF ch \in {MobileGlyph, MacGlyph, WindowsGlyph, LinuxGlyph} THEN 4
    ELSE IF ch = PoorLine THEN 2
    ELSE 1

\* get_node_symbol(peer), lines 615-628.
get_node_symbol(peer) ==
    IF peer.exit_node THEN ExitGlyph
    ELSE IF Lower(peer.os) \in {"android", "ios"} THEN MobileGlyph
    ELSE IF Lower(peer.os) \in {"darwin", "macos"} THEN MacGlyph
    ELSE IF Lower(peer.os) \in {"windows"} THEN WindowsGlyph
    ELSE IF Lower(peer.os) \in {"linux"} THEN LinuxGlyph
    ELSE GenericGlyph

\* get_connection_char(quality), lines 630-639.
get_connection_char(quality) ==
    CASE quality = "excellent" -> ExcellentLine
      [] quality = "good" -> GoodLine
      [] quality = "fair" -> FairLine
      [] quality = "poor" -> PoorLine
      [] quality = "unknown" -> UnknownLine
      [] OTHER -> GoodLine

\* A canvas: cells[<<x, y>>] is canvas[y][x], the string ch that the cell
\* holds and who wrote it (by: "blank", "node", "hostname", "location" or
\* "line"); line_writes records every write of draw_line, with what the cell
\* held.
Cell(ch, by) == [ch |-> ch, by |-> by]

BlankCanvas(width, height) ==
    [cells |-> [p \in (0..(width - 1)) \X (0..(height - 1)) |-> Cell(Space, "blank")],
     line_writes |-> {}]

\* "for i, char in enumerate(chars): if x0 + i < width: canvas[y][x0 + i] =
\* char", for a row y of the canvas and x0 >= 0.
WriteText(cv, x0, y, chars, by) ==
    [cv EXCEPT !.cells =
        [p \in DOMAIN cv.cells |->
            IF p[2] = y /\ p[1] >= x0 /\ p[1] < x0 + Len(chars)
            THEN Cell(chars[p[1] - x0 + 1], by)
            ELSE cv.cells[p]]]

\* place_node_on_canvas with the hostname label on the row of the node itself.
place_node_on_canvas_mutant(cv, x, y, hostname, symbol, width, height, offline) ==
    IF ~(0 <= y /\ y < height /\ 0 <= x /\ x < width) THEN cv
    ELSE LET placed == [cv EXCEPT !.cells[<<x, y>>] = Cell(symbol, "node")]
             label8 == Prefix(Chars(hostname), 8)
             label_start == Max(0, x - Len(label8) \div 2)
             label_end == Min(width, label_start + Len(label8))
             label == Prefix(label8, label_end - label_start)
         IN  WriteText(placed, label_start, y, label, "hostname")

\* place_node_on_canvas(canvas, x, y, hostname, symbol, width, height, offline).
place_node_on_canvas(cv, x, y, hostname, symbol, width, height, offline) ==
    IF ~(0 <= y /\ y < height /\ 0 <= x /\ x < width) THEN cv
    ELSE LET placed == [cv EXCEPT !.cells[<<x, y>>] = Cell(symbol, "node")]
             label8 == Prefix(Chars(hostname), 8)
             label_start == Max(0, x - Len(label8) \div 2)
             label_end == Min(width, label_start + Len(label8))
             label == Prefix(label8, label_end - label_start)
             label_y == IF offline THEN y - 1 ELSE y + 1
         IN  IF 0 <= label_y /\ label_y < height
             THEN WriteText(placed, label_start, label_y, label, "hostname")
             ELSE placed

\* One iteration's write of draw_line, lines 652-653 and 662-663.
Plot(cv, x, y, char, width, height) ==
    IF 0 <= x /\ x < width /\ 0 <= y /\ y < height /\ cv.cells[<<x, y>>].ch = Space
    THEN [cells |-> [cv.cells EXCEPT ![<<x, y>>] = Cell(char, "line")],
          line_writes |-> cv.line_writes \cup
                            {[x |-> x, y |-> y, held |-> cv.cells[<<x, y>>]]}]
    ELSE cv

\* The loops of draw_line from the position (x, y) on, where err2 is twice
\* err (err starts at dx / 2 or dy / 2, a half for an odd difference).
RECURSIVE DrawFrom(_, _, _, _, _)
DrawFrom(cv, x, y, err2, line) ==
    IF line.dx > line.dy THEN
        IF x = line.x2 THEN cv
        ELSE LET drawn == Plot(cv, x, y, line.char, line.width, line.height)
                 err == err2 - 2 * line.dy
             IN  IF err < 0
                 THEN DrawFrom(drawn, x + line.sx, y + line.sy, err + 2 * line.dx, line)
                 ELSE DrawFrom(drawn, x + line.sx, y, err, line)
    ELSE
        IF y = line.y2 THEN cv
        ELSE LET drawn == Plot(cv, x, y, line.char, line.width, line.height)
                 err == err2 - 2 * line.dx
             IN  IF err < 0
                 THEN DrawFrom(drawn, x + line.sx, y + line.sy, err + 2 * line.dy, line)
                 ELSE DrawFrom(drawn, x, y + line.sy, err, line)

\* draw_line(canvas, x1, y1, x2, y2, char, width, height), lines 641-668.
draw_line(cv, x1, y1, x2, y2, char, width, height) ==
    LET line == [x2 |-> x2, y2 |-> y2, dx |-> Abs(x2 - x1), dy |-> Abs(y2 - y1),
                 sx |-> IF x1 < x2 THEN 1 ELSE -1, sy |-> IF y1 < y2 THEN 1 ELSE -1,
                 char |-> char, width |-> width, height |-> height]
    IN  DrawFrom(cv, x1, y1, IF line.dx > line.dy THEN line.dx ELSE line.dy, line)

\* draw_line step by step. The locals of a call, lines 643-647 and 650 or
\* 660: err2 is twice err.
LineLocals(x1, y1, x2, y2) ==
    [x |-> x1, y |-> y1, dx |-> Abs(x2 - x1), dy |-> Abs(y2 - y1),
     sx |-> IF x1 < x2 THEN 1 ELSE -1, sy |-> IF y1 < y2 THEN 1 ELSE -1,
     err2 |-> IF Abs(x2 - x1) > Abs(y2 - y1) THEN Abs(x2 - x1) ELSE Abs(y2 - y1)]

\* "while x != x2" of line 651, "while y != y2" of line 661.
LineLoopCondition(loc, x2, y2) ==
    IF loc.dx > loc.dy THEN loc.x # x2 ELSE loc.y # y2

LineAdvance_mutant(loc) ==
    IF loc.dx > loc.dy THEN
        LET err == loc.err2 - 2 * loc.dy
        IN  IF err < 0
            THEN [loc EXCEPT !.x = @ + loc.sx, !.y = @ + loc.sy, !.err2 = err]
            ELSE [loc EXCEPT !.x = @ + loc.sx, !.err2 = err]
    ELSE
        LET err == loc.err2 - 2 * loc.dx
        IN  IF err < 0
            THEN [loc EXCEPT !.x = @ + loc.sx, !.y = @ + loc.sy, !.err2 = err]
            ELSE [loc EXCEPT !.y = @ + loc.sy, !.err2 = err]

\* The locals after the lines 654-658 or 664-668 of one iteration.
LineAdvance(loc) ==
    IF loc.dx > loc.dy THEN
        LET err == loc.err2 - 2 * loc.dy
        IN  IF err < 0
            THEN [loc EXCEPT !.x = @ + loc.sx, !.y = @ + loc.sy,
                             !.err2 = err + 2 * loc.dx]
            ELSE [loc EXCEPT !.x = @ + loc.sx, !.err2 = err]
    ELSE
        LET err == loc.err2 - 2 * loc.dx
        IN  IF err < 0
            THEN [loc EXCEPT !.x = @ + loc.sx, !.y = @ + loc.sy,
                             !.err2 = err + 2 * loc.dy]
            ELSE [loc EXCEPT !.y = @ + loc.sy, !.err2 = err]

\* The canvas of the calls explored, and the endpoints given: cells of the
\* canvas and cells beside it.
LineCanvas == [width |-> 4, height |-> 3]
LineXs == -1..LineCanvas.width
LineYs == -1..LineCanvas.height
LineChar == "-"

NoLineCall ==
    [pc |-> "none", x1 |-> 0, y1 |-> 0, x2 |-> 0, y2 |-> 0,
     locals |-> LineLocals(0, 0, 0, 0), iterations |-> 0,
     canvas |-> BlankCanvas(LineCanvas.width, LineCanvas.height)]

\* draw_line is called on a blank canvas: lines 643-650 or 660.
DrawLineCall ==
    /\ line_call.pc = "none"
    /\ \E x1 \in LineXs, x2 \in LineXs, y1 \in LineYs, y2 \in LineYs :
         line_call' = [line_call EXCEPT
                          !.pc = "loop", !.x1 = x1, !.y1 = y1, !.x2 = x2, !.y2 = y2,
                          !.locals = LineLocals(x1, y1, x2, y2)]
    /\ UNCHANGED <<map_call, graph_call, bw_vars, ping_vars, topo_vars, analysis_vars,
                   geo_vars, cont_vars, dash_vars>>

\* One iteration of the loop of lines 651-658 or 661-668.
DrawLineIteration ==
    /\ line_call.pc = "loop"
    /\ LineLoopCondition(line_call.locals, line_call.x2, line_call.y2)
    /\ line_call' = [line_call EXCEPT
                        !.canvas = Plot(@, line_call.locals.x, line_call.locals.y,
                                        LineChar, LineCanvas.width, LineCanvas.height),
                        !.locals = LineAdvance(@),
                        !.iterations = @ + 1]
    /\ UNCHANGED <<map_call, graph_call, bw_vars, ping_vars, topo_vars, analysis_vars,
                   geo_vars, cont_vars, dash_vars>>

\* The loop condition is false: the function returns.
DrawLineReturn ==
    /\ line_call.pc = "loop"
    /\ ~LineLoopCondition(line_call.locals, line_call.x2, line_call.y2)
    /\ line_call' = [line_call EXCEPT !.pc = "returned"]
    /\ UNCHANGED <<map_call, graph_call, bw_vars, ping_vars, topo_vars, analysis_vars,
                   geo_vars, cont_vars, dash_vars>>

\* math.cos and math.sin of the angle i * (2 * pi / n) in millionths, for the
\* n <= 3 online peers that the maps explored hold. An entry that the float
\* misses by its rounding error is moved by one millionth to the side of the
\* float (cos(4 pi / 3) is -0.5000000000000004), so that int() truncates it as
\* it truncates the float.
TrigMicro(i, n) ==
    CASE n = 1 -> [cos |-> 1000000, sin |-> 0]
      [] n = 2 /\ i = 0 -> [cos |-> 1000000, sin |-> 0]
      [] n = 2 /\ i = 1 -> [cos |-> -1000000, sin |-> 0]
      [] n = 3 /\ i = 0 -> [cos |-> 1000000, sin |-> 0]
      [] n = 3 /\ i = 1 -> [cos |-> -499999, sin |-> 866025]
      [] n = 3 /\ i = 2 -> [cos |-> -500001, sin |-> -866025]

\* int(center + radius * t) for t in millionths: int() truncates toward zero.
IntOf(center, radius, micro) ==
    LET v == center * 1000000 + radius * micro
    IN  IF v >= 0 THEN v \div 1000000 ELSE -((-v) \div 1000000)

PeerPosition_mutant(i, n, width, height) ==
    LET radius_x == Min(width \div 3, 20)
        radius_y == Min(height \div 3, 8)
    IN  [x |-> IntOf(width \div 2, radius_x, TrigMicro(i, n).cos),
         y |-> IntOf(height \div 2, radius_y, TrigMicro(i, n).sin)]

\* The position of the i-th of n online peers, lines 532-543.
PeerPosition(i, n, width, height) ==
    LET radius_x == Min(width \div 3, 20)
        radius_y == Min(height \div 3, 8)
        x == IntOf(width \div 2, radius_x, TrigMicro(i, n).cos)
        y == IntOf(height \div 2, radius_y, TrigMicro(i, n).sin)
    IN  [x |-> Max(2, Min(width - 3, x)), y |-> Max(1, Min(height - 2, y))]

\* The location label of an online peer, lines 550-564.
LocationLabel(cv, peer, x, y, height) ==
    LET country_code == IF peer.location.present THEN peer.location.country_code ELSE ""
        city == IF peer.location.present THEN peer.location.city ELSE ""
        location_label ==
            IF city # "" /\ city # "Unknown"
            THEN Prefix(Chars(city), 8) \o <<",">> \o Chars(country_code)
            ELSE Chars(country_code)
        label_y == y + 2
        label_x == Max(0, x - Len(location_label) \div 2)
    IN  IF country_code # "" /\ country_code # "??" /\ label_y < height
        THEN WriteText(cv, label_x, label_y, location_label, "location")
        ELSE cv

\* The loop of lines 536-573 from the i-th online peer on.
RECURSIVE PlaceOnline(_, _, _, _, _, _)
PlaceOnline(cv, online_peers, i, graph, width, height) ==
    IF i >= Len(online_peers) THEN cv
    ELSE LET peer == online_peers[i + 1]
             at == PeerPosition(i, Len(online_peers), width, height)
             placed == place_node_on_canvas(cv, at.x, at.y, peer.hostname,
                                            get_node_symbol(peer), width, height, FALSE)
             labelled == LocationLabel(placed, peer, at.x, at.y, height)
             connection_key == <<graph.center_node, peer.hostname>>
             drawn == IF connection_key \in DOMAIN graph.connections
                      THEN draw_line(labelled, width \div 2, height \div 2, at.x, at.y,
                               get_connection_char(
                                   graph.connections[connection_key].quality),
                               width, height)
                      ELSE labelled
         IN  PlaceOnline(drawn, online_peers, i + 1, graph, width, height)

\* The loop of lines 580-593 from the i-th offline peer on.
RECURSIVE PlaceOffline(_, _, _, _, _)
PlaceOffline(cv, offline_peers, i, width, height) ==
    IF i >= Len(offline_peers) THEN cv
    ELSE LET peer == offline_peers[i + 1]
             y_pos == height - 3
             x_pos == 2 + i * 10
             placed == place_node_on_canvas(cv, x_pos, y_pos, peer.hostname,
                                            OfflineGlyph, width, height, TRUE)
             country_code == IF peer.location.present
                             THEN peer.location.country_code ELSE ""
             labelled == IF country_code # "" /\ country_code # "??"
                            /\ y_pos + 1 < height
                         THEN WriteText(placed, x_pos, y_pos + 1, Chars(country_code),
                                        "location")
                         ELSE placed
         IN  PlaceOffline(IF x_pos < width - 2 THEN labelled ELSE cv,
                          offline_peers, i + 1, width, height)

\* generate_standard_map(topology, width, height), for height >= 3: the canvas
\* before the rows are joined.
generate_standard_map(graph, width, height) ==
    LET center_node == graph.center_node
        has_center == \E k \in DOMAIN graph.nodes :
                          graph.nodes[k].hostname = center_node
        centered == IF has_center
                    THEN place_node_on_canvas(BlankCanvas(width, height),
                             width \div 2, height \div 2, center_node, CenterGlyph,
                             width, height, FALSE)
                    ELSE BlankCanvas(width, height)
        online_peers == SelectSeq(graph.nodes,
                            LAMBDA n : n.hostname # center_node /\ n.online)
        offline_peers == SelectSeq(graph.nodes,
                            LAMBDA n : n.hostname # center_node /\ ~n.online)
    IN  PlaceOffline(PlaceOnline(centered, online_peers, 0, graph, width, height),
                     Prefix(offline_peers, 8), 0, width, height)

\* The column at which the cell x of row y starts in ''.join(row).
JoinedColumn(cells, x, y) ==
    SumOver([j \in 0..(x - 1) |-> GlyphLen(cells[<<j, y>>].ch)], 0..(x - 1))

\* The graphs given to the renderers: the self node "gamma" and up to three
\* peers, each with the edge that the builder made for it or none (quality "").
NoLocation == [present |-> FALSE, city |-> "", country_code |-> ""]
MapLocations == {NoLocation,
                 [present |-> TRUE, city |-> "New York", country_code |-> "US"]}
MapPeers ==
    [hostname : {"alpha", "beta"}, online : BOOLEAN, os : {"linux"},
     exit_node : {FALSE}, location : MapLocations, quality : {"", "good"}]
MapPeerLists == UNION {[1..n -> MapPeers] : n \in 0..3}
MapSizes == {[width |-> 5, height |-> 3], [width |-> 6, height |-> 6]}
\* The canvases on which the graph of the self node alone is drawn.
SoloMapSizes == [width : 1..12, height : 1..8]

MapCenter ==
    [hostname |-> "gamma", online |-> TRUE, os |-> "linux", exit_node |-> FALSE,
     location |-> NoLocation, quality |-> ""]

\* The connections dict of the builder's loop, lines 143-153, from peer k on.
RECURSIVE MapConnections(_, _, _)
MapConnections(peers, k, connections) ==
    IF k > Len(peers) THEN connections
    ELSE MapConnections(peers, k + 1,
             IF peers[k].quality = "" THEN connections
             ELSE DictPut(connections, <<MapCenter.hostname, peers[k].hostname>>,
                          [source |-> MapCenter.hostname,
                           target |-> peers[k].hostname,
                           quality |-> peers[k].quality]))

MapTopology(peers) ==
    [nodes |-> <<MapCenter>> \o peers,
     connections |-> MapConnections(peers, 1, EmptyDict),
     center_node |-> MapCenter.hostname]

NoMapCall ==
    [called |-> FALSE, view_mode |-> "", topology |-> MapTopology(<<>>),
     width |-> 0, height |-> 0, canvas |-> BlankCanvas(0, 0)]

\* A call of generate_standard_map. The renderer keeps no state between calls,
\* so every call is explored from the initial state.
GenerateStandardMap ==
    /\ ~map_call.called
    /\ \E peers \in MapPeerLists :
       \E size \in (IF peers = <<>> THEN SoloMapSizes ELSE MapSizes) :
         map_call' = [called |-> TRUE, view_mode |-> "standard",
                      topology |-> MapTopology(peers),
                      width |-> size.width, height |-> size.height,
                      canvas |-> generate_standard_map(MapTopology(peers),
                                                       size.width, size.height)]
    /\ UNCHANGED <<graph_call, line_call, bw_vars, ping_vars, topo_vars, analysis_vars,
                   geo_vars, cont_vars, dash_vars>>

-----------------------------------------------------------------------------
(* Graph renderer *)

BarFull == "<bar full>"
BarHigh == "<bar high>"
BarHalf == "<bar half>"
BarLow == "<bar low>"
BarDot == "."

BarGlyphs == {BarFull, BarHigh, BarHalf, BarLow, BarDot}

\* " " * n.
Spaces(n) == [i \in 1..n |-> Space]

\* str.ljust(width).
Ljust(chars, width) == chars \o Spaces(Max(0, width - Len(chars)))

\* str.center(width): an odd margin puts its extra space on the left only
\* when the width is odd too.
Center(chars, width) ==
    IF width <= Len(chars) THEN chars
    ELSE LET marg == width - Len(chars)
             left == (marg \div 2)
                     + (IF marg % 2 = 1 /\ width % 2 = 1 THEN 1 ELSE 0)
         IN Spaces(left) \o chars \o Spaces(marg - left)

Digit(d) ==
    CASE d = 0 -> "0" [] d = 1 -> "1" [] d = 2 -> "2" [] d = 3 -> "3"
      [] d = 4 -> "4" [] d = 5 -> "5" [] d = 6 -> "6" [] d = 7 -> "7"
      [] d = 8 -> "8" [] d = 9 -> "9"

RECURSIVE Digits(_)
Digits(n) == IF n < 10 THEN <<Digit(n)>> ELSE Digits(n \div 10) \o <<Digit(n % 10)>>

\* format_bytes(bytes_value), lines 852-869, of a whole number of bytes per
\* second below 1024 (the unit stays "B/s").
format_bytes(bytes_value) ==
    IF bytes_value = 0 THEN <<"0">> \o Chars(" B/s")
    ELSE IF bytes_value >= 100 THEN Digits(bytes_value) \o Chars(" B/s")
    ELSE IF bytes_value >= 10 THEN Digits(bytes_value) \o <<".", "0">> \o Chars(" B/s")
    ELSE Digits(bytes_value) \o <<".", "0", "0">> \o Chars(" B/s")

\* The glyph of a normalized value value / max_value, lines 908-917.
BarChar(value, max_value) ==
    IF 5 * value > 4 * max_value THEN BarFull
    ELSE IF 5 * value > 3 * max_value THEN BarHigh
    ELSE IF 5 * value > 2 * max_value THEN BarHalf
    ELSE IF 5 * value > max_value THEN BarLow
    ELSE BarDot

\* int((height - 2) * (1 - value / max_value)) + 1, clamped, lines 904-906.
\* int() truncates toward zero.
BarRow(value, max_value, height) ==
    LET num == (height - 2) * (max_value - value)
        trunc == IF num >= 0 THEN num \div max_value ELSE -((-num) \div max_value)
    IN Max(1, Min(height - 1, trunc + 1))

\* int(x * step), lines 895-900.
DataIndex(x, data_len, data_width) ==
    IF data_len > data_width THEN (x * data_len) \div data_width ELSE x

\* graph[y][x] = ch on a grid of rows 0..height-1 and columns 0..width-1,
\* kept as sequences; an index past the end raises IndexError.
SetCell(g, y, x, ch) ==
    IF g.raised THEN g
    ELSE IF y >= Len(g.rows) \/ x >= Len(g.rows[y + 1]) THEN [g EXCEPT !.raised = TRUE]
    ELSE [g EXCEPT !.rows[y + 1][x + 1] = ch]

RECURSIVE WriteRow(_, _, _, _, _)
WriteRow(g, y, x0, chars, i) ==
    IF i > Len(chars) THEN g
    ELSE WriteRow(SetCell(g, y, x0 + i - 1, chars[i]), y, x0, chars, i + 1)

RECURSIVE PlotData(_, _, _, _, _, _)
PlotData(g, data, x, data_width, max_value, height) ==
    IF x >= data_width THEN g
    ELSE LET data_index == DataIndex(x, Len(data), data_width)
         IN PlotData(IF data_index < Len(data)
                     THEN SetCell(g, BarRow(data[data_index + 1], max_value, height), x,
                                  BarChar(data[data_index + 1], max_value))
                     ELSE g,
                     data, x + 1, data_width, max_value, height)

EmptyGraphRows_mutant(width, height, title) ==
    [y \in 1..height |->
        IF y - 1 = 0 /\ title # "" THEN Ljust(Prefix(Chars(title), width), width)
        ELSE IF y - 1 = height \div 2 THEN Center(Chars("No data"), width)
        ELSE Spaces(width)]

\* The rows of the "No data" grid, lines 873-878: row 0 is the title when one
\* is given, and row height // 2 is assigned after it.
EmptyGraphRows(width, height, title) ==
    [y \in 1..height |->
        IF y - 1 = height \div 2 THEN Center(Chars("No data"), width)
        ELSE IF y - 1 = 0 /\ title # "" THEN Ljust(Prefix(Chars(title), width), width)
        ELSE Spaces(width)]

\* generate_ascii_graph(data, width, height, title), lines 871-928, for
\* height >= 1 and a series of whole numbers >= 0. The result is the list of
\* rows before ''.join, or raised.
generate_ascii_graph(data, width, height, title) ==
    IF data = <<>> \/ \A i \in 1..Len(data) : data[i] = 0
    THEN [raised |-> FALSE, rows |-> EmptyGraphRows(width, height, title)]
    ELSE LET max_value == IF SeqMax(data) = 0 THEN 1 ELSE SeqMax(data)
             blank == [raised |-> FALSE, rows |-> [y \in 1..height |-> Spaces(width)]]
             titled == IF title # "" THEN WriteRow(blank, 0, 0, Prefix(Chars(title), width), 1)
                       ELSE blank
             data_width == IF title # "" THEN width - 1 ELSE width
             max_text == format_bytes(max_value)
         IN IF Len(data) > data_width /\ data_width = 0
            THEN [titled EXCEPT !.raised = TRUE]
            ELSE LET plotted == PlotData(titled, data, 0, data_width, max_value, height)
                 IN IF Len(max_text) < width
                    THEN WriteRow(plotted, 1, width - Len(max_text), max_text, 1)
                    ELSE plotted

\* len(ch) of a cell of the grid: the four block glyphs of lines 909-915 are
\* string literals of three characters each in the source file, "." and every
\* other cell hold one.
CellLen(ch) == IF ch \in {BarFull, BarHigh, BarHalf, BarLow} THEN 3 ELSE 1

\* len(''.join(row)), line 928.
JoinedLen(row) == SumOver([x \in 1..Len(row) |-> CellLen(row[x])], 1..Len(row))

GraphValues == 0..4
GraphSeries == UNION {[1..n -> GraphValues] : n \in 0..MaxSeries}
GraphWidths == {1, 3, 8, 10}
GraphHeights == {1, 2, 3, 5}
GraphTitles == {"", "Upload"}

NoGraphCall ==
    [called |-> FALSE, data |-> <<>>, width |-> 0, height |-> 0, title |-> "",
     result |-> [raised |-> FALSE, rows |-> <<>>]]

\* A call of generate_ascii_graph. The renderer keeps no state between calls.
GenerateAsciiGraph ==
    /\ ~graph_call.called
    /\ \E data \in GraphSeries, width \in GraphWidths, height \in GraphHeights,
          title \in GraphTitles :
         graph_call' = [called |-> TRUE, data |-> data, width |-> width,
                        height |-> height, title |-> title,
                        result |-> generate_ascii_graph(data, width, height, title)]
    /\ UNCHANGED <<map_call, line_call, bw_vars, ping_vars, topo_vars, analysis_vars,
                   geo_vars, cont_vars, dash_vars>>

-----------------------------------------------------------------------------
(* Geo heuristics *)

\* The strings that the resolvers search (relay names, endpoints, hostnames)
\* are sequences of characters.

\* str.lower(), of ASCII.
LowerChar(c) ==
    CASE c = "A" -> "a" [] c = "B" -> "b" [] c = "C" -> "c" [] c = "D" -> "d"
      [] c = "E" -> "e" [] c = "F" -> "f" [] c = "G" -> "g" [] c = "H" -> "h"
      [] c = "I" -> "i" [] c = "J" -> "j" [] c = "K" -> "k" [] c = "L" -> "l"
      [] c = "M" -> "m" [] c = "N" -> "n" [] c = "O" -> "o" [] c = "P" -> "p"
      [] c = "Q" -> "q" [] c = "R" -> "r" [] c = "S" -> "s" [] c = "T" -> "t"
      [] c = "U" -> "u" [] c = "V" -> "v" [] c = "W" -> "w" [] c = "X" -> "x"
      [] c = "Y" -> "y" [] c = "Z" -> "z"
      [] OTHER -> c

LowerChars(s) == [i \in 1..Len(s) |-> LowerChar(s[i])]

\* pattern in s.
Contains(s, pattern) ==
    \E i \in 0..(Len(s) - Len(pattern)) : SubSeq(s, i + 1, i + Len(pattern)) = pattern

\* s.startswith(prefix).
StartsWith(s, prefix) ==
    Len(s) >= Len(prefix) /\ SubSeq(s, 1, Len(prefix)) = prefix

\* s.split(":")[0].
RECURSIVE BeforeColon(_)
BeforeColon(s) ==
    IF s = <<>> \/ Head(s) = ":" THEN <<>> ELSE <<Head(s)>> \o BeforeColon(Tail(s))

LocationFields == {"city", "country", "country_code", "region", "latitude",
                   "longitude", "timezone"}

\* The all-Unknown location of lines 163-171, 281, 308, 342.
UnknownLocation ==
    [city |-> "Unknown", country |-> "Unknown", country_code |-> "??",
     region |-> "Unknown", latitude |-> None, longitude |-> None,
     timezone |-> "Unknown"]

\* d.update(e), where e holds the given keys.
DictUpdate(d, e, keys) == [f \in DOMAIN d |-> IF f \in keys THEN e[f] ELSE d[f]]

\* location_mapping of parse_relay_location, lines 231-266, in its order.
location_mapping ==
    << [pattern |-> <<"n", "y", "c">>, keys |-> {"city", "country", "country_code", "region"}, city |-> "New York", country |-> "United States", country_code |-> "US", region |-> "North America"],
       [pattern |-> <<"s", "f", "o">>, keys |-> {"city", "country", "country_code", "region"}, city |-> "San Francisco", country |-> "United States", country_code |-> "US", region |-> "North America"],
       [pattern |-> <<"s", "e", "a">>, keys |-> {"city", "country", "country_code", "region"}, city |-> "Seattle", country |-> "United States", country_code |-> "US", region |-> "North America"],
       [pattern |-> <<"d", "a", "l">>, keys |-> {"city", "country", "country_code", "region"}, city |-> "Dallas", country |-> "United States", country_code |-> "US", region |-> "North America"],
       [pattern |-> <<"c", "h", "i">>, keys |-> {"city", "country", "country_code", "region"}, city |-> "Chicago", country |-> "United States", country_code |-> "US", region |-> "North America"],
       [pattern |-> <<"m", "i", "a">>, keys |-> {"city", "country", "country_code", "region"}, city |-> "Miami", country |-> "United States", country_code |-> "US", region |-> "North America"],
       [pattern |-> <<"d", "e", "n">>, keys |-> {"city", "country", "country_code", "region"}, city |-> "Denver", country |-> "United States", country_code |-> "US", region |-> "North America"],
       [pattern |-> <<"t", "o", "r">>, keys |-> {"city", "country", "country_code", "region"}, city |-> "Toronto", country |-> "Canada", country_code |-> "CA", region |-> "North America"],
       [pattern |-> <<"l", "h", "r">>, keys |-> {"city", "country", "country_code", "region"}, city |-> "London", country |-> "United Kingdom", country_code |-> "GB", region |-> "Europe"],
       [pattern |-> <<"f", "r", "a">>, keys |-> {"city", "country", "country_code", "region"}, city |-> "Frankfurt", country |-> "Germany", country_code |-> "DE", region |-> "Europe"],
       [pattern |-> <<"a", "m", "s">>, keys |-> {"city", "country", "country_code", "region"}, city |-> "Amsterdam", country |-> "Netherlands", country_code |-> "NL", region |-> "Europe"],
       [pattern |-> <<"p", "a", "r">>, keys |-> {"city", "country", "country_code", "region"}, city |-> "Paris", country |-> "France", country_code |-> "FR", region |-> "Europe"],
       [pattern |-> <<"m", "a", "d">>, keys |-> {"city", "country", "country_code", "region"}, city |-> "Madrid", country |-> "Spain", country_code |-> "ES", region |-> "Europe"],
       [pattern |-> <<"m", "i", "l">>, keys |-> {"city", "country", "country_code", "region"}, city |-> "Milan", country |-> "Italy", country_code |-> "IT", region |-> "Europe"],
       [pattern |-> <<"s", "t", "o">>, keys |-> {"city", "country", "country_code", "region"}, city |-> "Stockholm", country |-> "Sweden", country_code |-> "SE", region |-> "Europe"],
       [pattern |-> <<"w", "a", "r">>, keys |-> {"city", "country", "country_code", "region"}, city |-> "Warsaw", country |-> "Poland", country_code |-> "PL", region |-> "Europe"],
       [pattern |-> <<"n", "r", "t">>, keys |-> {"city", "country", "country_code", "region"}, city |-> "Tokyo", country |-> "Japan", country_code |-> "JP", region |-> "Asia Pacific"],
       [pattern |-> <<"h", "k", "g">>, keys |-> {"city", "country", "country_code", "region"}, city |-> "Hong Kong", country |-> "Hong Kong", country_code |-> "HK", region |-> "Asia Pacific"],
       [pattern |-> <<"s", "i", "n">>, keys |-> {"city", "country", "country_code", "region"}, city |-> "Singapore", country |-> "Singapore", country_code |-> "SG", region |-> "Asia Pacific"],
       [pattern |-> <<"s", "y", "d">>, keys |-> {"city", "country", "country_code", "region"}, city |-> "Sydney", country |-> "Australia", country_code |-> "AU", region |-> "Asia Pacific"],
       [pattern |-> <<"b", "l", "r">>, keys |-> {"city", "country", "country_code", "region"}, city |-> "Bangalore", country |-> "India", country_code |-> "IN", region |-> "Asia Pacific"],
       [pattern |-> <<"i", "c", "n">>, keys |-> {"city", "country", "country_code", "region"}, city |-> "Seoul", country |-> "South Korea", country_code |-> "KR", region |-> "Asia Pacific"],
       [pattern |-> <<"s", "a", "o">>, keys |-> {"city", "country", "country_code", "region"}, city |-> "S__o Paulo", country |-> "Brazil", country_code |-> "BR", region |-> "South America"],
       [pattern |-> <<"j", "n", "b">>, keys |-> {"city", "country", "country_code", "region"}, city |-> "Johannesburg", country |-> "South Africa", country_code |-> "ZA", region |-> "Africa"],
       [pattern |-> <<"d", "x", "b">>, keys |-> {"city", "country", "country_code", "region"}, city |-> "Dubai", country |-> "UAE", country_code |-> "AE", region |-> "Middle East"] >>

\* location_patterns of parse_hostname_location, lines 313-331, in its order.
\* A field that an entry does not hold carries a filler that nothing reads.
location_patterns ==
    << [pattern |-> <<"n", "y", "c">>, keys |-> {"city", "country", "country_code"}, city |-> "New York", country |-> "United States", country_code |-> "US", region |-> "Unknown"],
       [pattern |-> <<"s", "f">>, keys |-> {"city", "country", "country_code"}, city |-> "San Francisco", country |-> "United States", country_code |-> "US", region |-> "Unknown"],
       [pattern |-> <<"l", "a">>, keys |-> {"city", "country", "country_code"}, city |-> "Los Angeles", country |-> "United States", country_code |-> "US", region |-> "Unknown"],
       [pattern |-> <<"l", "o", "n", "d", "o", "n">>, keys |-> {"city", "country", "country_code"}, city |-> "London", country |-> "United Kingdom", country_code |-> "GB", region |-> "Unknown"],
       [pattern |-> <<"p", "a", "r", "i", "s">>, keys |-> {"city", "country", "country_code"}, city |-> "Paris", country |-> "France", country_code |-> "FR", region |-> "Unknown"],
       [pattern |-> <<"t", "o", "k", "y", "o">>, keys |-> {"city", "country", "country_code"}, city |-> "Tokyo", country |-> "Japan", country_code |-> "JP", region |-> "Unknown"],
       [pattern |-> <<"s", "y", "d", "n", "e", "y">>, keys |-> {"city", "country", "country_code"}, city |-> "Sydney", country |-> "Australia", country_code |-> "AU", region |-> "Unknown"],
       [pattern |-> <<"u", "s", "a">>, keys |-> {"country", "country_code", "region"}, city |-> "Unknown", country |-> "United States", country_code |-> "US", region |-> "North America"],
       [pattern |-> <<"c", "a", "n", "a", "d", "a">>, keys |-> {"country", "country_code", "region"}, city |-> "Unknown", country |-> "Canada", country_code |-> "CA", region |-> "North America"],
       [pattern |-> <<"u", "k">>, keys |-> {"country", "country_code", "region"}, city |-> "Unknown", country |-> "United Kingdom", country_code |-> "GB", region |-> "Europe"],
       [pattern |-> <<"g", "e", "r", "m", "a", "n", "y">>, keys |-> {"country", "country_code", "region"}, city |-> "Unknown", country |-> "Germany", country_code |-> "DE", region |-> "Europe"],
       [pattern |-> <<"f", "r", "a", "n", "c", "e">>, keys |-> {"country", "country_code", "region"}, city |-> "Unknown", country |-> "France", country_code |-> "FR", region |-> "Europe"],
       [pattern |-> <<"j", "a", "p", "a", "n">>, keys |-> {"country", "country_code", "region"}, city |-> "Unknown", country |-> "Japan", country_code |-> "JP", region |-> "Asia Pacific"],
       [pattern |-> <<"a", "u", "s", "t", "r", "a", "l", "i", "a">>, keys |-> {"country", "country_code", "region"}, city |-> "Unknown", country |-> "Australia", country_code |-> "AU", region |-> "Asia Pacific"] >>

\* The index of the first entry of the table whose pattern is in s, or 0.
RECURSIVE FirstMatch(_, _, _)
FirstMatch(table, s, k) ==
    IF k > Len(table) THEN 0
    ELSE IF Contains(s, table[k].pattern) THEN k
    ELSE FirstMatch(table, s, k + 1)

\* parse_relay_location(relay), lines 229-281.
parse_relay_location(relay) ==
    LET k == FirstMatch(location_mapping, LowerChars(relay), 1)
    IN IF k = 0 THEN UnknownLocation
       ELSE [city |-> location_mapping[k].city,
             country |-> location_mapping[k].country,
             country_code |-> location_mapping[k].country_code,
             region |-> location_mapping[k].region,
             latitude |-> None, longitude |-> None, timezone |-> "Unknown"]

\* geolocate_ip(ip), lines 340-358.
geolocate_ip(ip) ==
    IF \/ StartsWith(ip, <<"1", "9", "2", ".", "1", "6", "8", ".">>)
       \/ StartsWith(ip, <<"1", "0", ".">>)
       \/ StartsWith(ip, <<"1", "7", "2", ".">>)
    THEN [UnknownLocation EXCEPT !.city = "Local Network", !.country = "Private",
                                 !.country_code = "LAN", !.region = "Local"]
    ELSE UnknownLocation

\* parse_hostname_location(hostname), lines 306-338.
parse_hostname_location(hostname) ==
    LET k == FirstMatch(location_patterns, LowerChars(hostname), 1)
    IN IF k = 0 THEN UnknownLocation
       ELSE DictUpdate(UnknownLocation, location_patterns[k], location_patterns[k].keys)

\* location_info of get_peer_location when the hostname resolver is reached,
\* lines 163-185.
LocationBeforeHostname(peer) ==
    LET after_relay ==
            IF peer.Relay # <<>>
            THEN DictUpdate(UnknownLocation, parse_relay_location(peer.Relay),
                            LocationFields)
            ELSE UnknownLocation
    IN IF peer.Endpoints # <<>> /\ peer.Relay = <<>>
          /\ Contains(peer.Endpoints[1], <<":">>)
       THEN DictUpdate(after_relay, geolocate_ip(BeforeColon(peer.Endpoints[1])),
                       LocationFields)
       ELSE after_relay

\* get_peer_location(peer), lines 161-193.
get_peer_location(peer) ==
    LET location_info == LocationBeforeHostname(peer)
        hostname_location == parse_hostname_location(peer.HostName)
    IN IF hostname_location.country # "Unknown"
       THEN DictUpdate(location_info, hostname_location, LocationFields)
       ELSE location_info

\* The Relay, Endpoints and HostName of the peers explored.
LocatedRelays ==
    {<<>>, <<"f", "r", "a">>, <<"N", "Y", "C">>, <<"x", "y", "z">>}

LocatedEndpoints ==
    {<<>>,
     << <<"1", "9", "2", ".", "1", "6", "8", ".", "1", ".", "5", ":", "4", "1">> >>,
     << <<"8", ".", "8", ".", "8", ".", "8", ":", "4", "1">>,
        <<"1", "0", ".", "0", ".", "0", ".", "1", ":", "4", "1">> >>,
     << <<"1", "0", ".", "0", ".", "0", ".", "1">> >>}

LocatedHostNames ==
    {<<>>, <<"a", "l", "p", "h", "a">>, <<"U", "S", "A", "-", "b", "o", "x">>,
     <<"n", "y", "c", "-", "w", "e", "b">>, <<"a", "t", "l", "a", "s">>,
     <<"p", "a", "r", "i", "s", "-", "f", "r", "a", "n", "c", "e">>,
     <<"j", "a", "p", "a", "n", "1">>, <<"d", "e", "s", "k">>}

NoLocationCall ==
    [called |-> FALSE,
     peer |-> [Relay |-> <<>>, Endpoints |-> <<>>, HostName |-> <<>>],
     earlier |-> UnknownLocation, location |-> UnknownLocation]

\* A call of get_peer_location. The resolvers keep no state between calls.
GetPeerLocation ==
    /\ ~location_call.called
    /\ \E relay \in LocatedRelays, endpoints \in LocatedEndpoints,
          hostname \in LocatedHostNames :
         LET peer == [Relay |-> relay, Endpoints |-> endpoints, HostName |-> hostname]
         IN location_call' = [called |-> TRUE, peer |-> peer,
                              earlier |-> LocationBeforeHostname(peer),
                              location |-> get_peer_location(peer)]
    /\ UNCHANGED <<local_call, bw_vars, ping_vars, topo_vars, analysis_vars,
                   render_vars, cont_vars, dash_vars>>

\* The local node's location. Its text fields are lists of characters.
UnknownChars == <<"U", "n", "k", "n", "o", "w", "n">>

UnknownLocalLocation ==
    [city |-> UnknownChars, country |-> UnknownChars, country_code |-> "??",
     region |-> UnknownChars, latitude |-> None, longitude |-> None,
     timezone |-> UnknownChars]

\* str.strip() of a text whose whitespace is spaces.
RECURSIVE LStrip(_)
LStrip(s) == IF s # <<>> /\ Head(s) = Space THEN LStrip(Tail(s)) ELSE s

RECURSIVE RStrip(_)
RStrip(s) ==
    IF s # <<>> /\ s[Len(s)] = Space THEN RStrip(SubSeq(s, 1, Len(s) - 1)) ELSE s

Strip(s) == RStrip(LStrip(s))

\* s.find(pattern) + 1 for a pattern that s contains.
FindAt(s, pattern) ==
    CHOOSE i \in 1..Len(s) :
        /\ SubSeq(s, i, i + Len(pattern) - 1) = pattern
        /\ \A j \in 1..(i - 1) : SubSeq(s, j, j + Len(pattern) - 1) # pattern

\* s.split(marker)[1] for a text that contains the marker: what stands
\* between its first occurrence and the next one.
AfterMarker(s, marker) ==
    LET rest == SubSeq(s, FindAt(s, marker) + Len(marker), Len(s))
    IN  IF Contains(rest, marker) THEN SubSeq(rest, 1, FindAt(rest, marker) - 1)
        ELSE rest

RegionMarker == <<"R", "e", "g", "i", "o", "n", ":">>
CountryMarker == <<"C", "o", "u", "n", "t", "r", "y", ":">>
CityMarker == <<"C", "i", "t", "y", ":">>

\* The loop of lines 290-300 over the lines of the output.
RECURSIVE ParseNetcheckLines(_, _)
ParseNetcheckLines(lines, location_info) ==
    IF lines = <<>> THEN location_info
    ELSE LET line == Strip(Head(lines))
         IN  ParseNetcheckLines(Tail(lines),
                 IF Contains(line, RegionMarker)
                 THEN [location_info EXCEPT
                          !.region = Strip(AfterMarker(line, RegionMarker))]
                 ELSE IF Contains(line, CountryMarker)
                 THEN [location_info EXCEPT
                          !.country = Strip(AfterMarker(line, CountryMarker))]
                 ELSE IF Contains(line, CityMarker)
                 THEN [location_info EXCEPT
                          !.city = Strip(AfterMarker(line, CityMarker))]
                 ELSE location_info)

\* parse_netcheck_location(netcheck), where netcheck_lines is
\* netcheck.split('\n').
parse_netcheck_location(netcheck_lines) ==
    ParseNetcheckLines(netcheck_lines, UnknownLocalLocation)

\* timezone.split("/").
RECURSIVE SplitSlash(_, _)
SplitSlash(s, part) ==
    IF s = <<>> THEN <<part>>
    ELSE IF Head(s) = "/" THEN <<part>> \o SplitSlash(Tail(s), <<>>)
    ELSE SplitSlash(Tail(s), Append(part, Head(s)))

\* s.replace("_", " ").
UnderscoresToSpaces(s) == [i \in 1..Len(s) |-> IF s[i] = "_" THEN Space ELSE s[i]]

\* location_info of get_local_location after the netcheck step, lines 196-211.
LocationAfterNetcheck(netcheck_lines) ==
    LET netcheck_location == parse_netcheck_location(netcheck_lines)
    IN  IF netcheck_location.country # UnknownChars
        THEN netcheck_location
        ELSE UnknownLocalLocation

\* get_local_location(), where netcheck_lines is what get_netcheck() gave,
\* split into lines, and timezone is time.tzname[0].
get_local_location(netcheck_lines, timezone) ==
    LET location_info == LocationAfterNetcheck(netcheck_lines)
        parts == SplitSlash(timezone, <<>>)
    IN  [location_info EXCEPT
            !.timezone = timezone,
            !.region = IF Contains(timezone, <<"/">>) /\ Len(parts) >= 2
                       THEN UnderscoresToSpaces(parts[2])
                       ELSE @]

\* The lines of the netcheck outputs explored: a report line, and the three
\* marked lines with a value each.
NetcheckLines ==
    {<<"R", "e", "p", "o", "r", "t">>,
     <<" ">> \o RegionMarker \o <<" ", "F", "R", "A", " ">>,
     <<" ">> \o RegionMarker \o <<" ", "N", "Y", "C">>,
     CountryMarker \o <<" ", "D", "E">>,
     CountryMarker \o <<" ">> \o UnknownChars,
     <<" ">> \o CityMarker \o <<" ", "M", "a", "i", "n", "z">>}

MaxNetcheckLines == 3
NetcheckOutputs == UNION {[1..n -> NetcheckLines] : n \in 0..MaxNetcheckLines}

\* time.tzname[0]: an abbreviation, or a name with a slash.
LocalTimezones ==
    {<<"U", "T", "C">>,
     <<"E", "u", "r", "o", "p", "e", "/", "B", "e">>,
     <<"U", "S", "/", "N", "e", "w", "_", "Y", "o">>}

NoLocalCall ==
    [called |-> FALSE, netcheck |-> <<>>, timezone |-> <<>>,
     resolved |-> UnknownLocalLocation, location |-> UnknownLocalLocation]

\* A call of get_local_location.
GetLocalLocation ==
    /\ ~local_call.called
    /\ \E netcheck \in NetcheckOutputs, timezone \in LocalTimezones :
         local_call' = [called |-> TRUE, netcheck |-> netcheck, timezone |-> timezone,
                       resolved |-> LocationAfterNetcheck(netcheck),
                       location |-> get_local_location(netcheck, timezone)]
    /\ UNCHANGED <<location_call, bw_vars, ping_vars, topo_vars, analysis_vars,
                   render_vars, cont_vars, dash_vars>>

-----------------------------------------------------------------------------
(* AdvancedPingScreen: the continuous ping *)

\* A task created by create_task(self.start_continuous_ping()) is "created"
\* until the event loop first runs it. It then runs without interruption up
\* to its first await, and key handlers, which are synchronous, run before
\* or after that step.
\*
\* The first await of start_continuous_ping is on line 860, and line 858
\* before it reads the global name asyncio. The module does not bind that
\* name: line 6 binds create_task and sleep from asyncio, and the import of
\* line 769 binds asyncio as a local of start_ping. The read raises NameError
\* in the first round, the except of lines 881-882 shows it and the finally
\* of lines 883-885 clears the flag: a task that passes the guard of line 834
\* ends within its first step.
LoopStates == {"created", "done"}

Targets == {"100.64.0.2"}

\* self.query_one(...).update(...) is a call into the UI library. On a
\* mounted screen it succeeds. What it does once the screen was dismissed is
\* decided by the library and not by this code: both outcomes are kept
\* (it raises, or it still finds the widget).
QueryRaises == dismissed = "queries_raise"

\* A digit key that names an online device, or a submitted input, lines
\* 665-668 and 690-700. The one-shot start_ping task that the handler
\* creates reads selected_target and writes nothing modelled here.
SelectTarget ==
    /\ dismissed = "no"
    /\ \E target \in Targets : selected_target' = target
    /\ UNCHANGED <<continuous_running, ping_count, loops, dismissed, rounds_begun,
                   stop_pending>>
    /\ UNCHANGED <<bw_vars, ping_vars, topo_vars, analysis_vars, render_vars, geo_vars,
                   dash_vars>>

\* stop_continuous_ping(), lines 887-888: the new value of the flag.
stop_continuous_ping(running) == FALSE

\* The key 'c', lines 724-730.
KeyC ==
    /\ dismissed = "no"
    /\ IF selected_target # "" /\ ~continuous_running
       THEN /\ Len(loops) < MaxTasks
            /\ loops' = Append(loops, "created")
            /\ stop_pending' = FALSE
            /\ UNCHANGED continuous_running
       ELSE IF continuous_running
       THEN /\ continuous_running' = stop_continuous_ping(continuous_running)
            /\ stop_pending' = TRUE
            /\ UNCHANGED loops
       ELSE UNCHANGED <<continuous_running, loops, stop_pending>>
    /\ UNCHANGED <<selected_target, ping_count, dismissed, rounds_begun>>
    /\ UNCHANGED <<bw_vars, ping_vars, topo_vars, analysis_vars, render_vars, geo_vars,
                   dash_vars>>

\* The keys 'q' and escape, lines 737-739: stop, then dismiss the screen.
KeyQ ==
    /\ dismissed = "no"
    /\ continuous_running' = stop_continuous_ping(continuous_running)
    /\ stop_pending' = TRUE
    /\ dismissed' \in {"queries_raise", "queries_work"}
    /\ UNCHANGED <<selected_target, ping_count, loops, rounds_begun>>
    /\ UNCHANGED <<bw_vars, ping_vars, topo_vars, analysis_vars, render_vars, geo_vars,
                   dash_vars>>

\* The event loop runs a created task: start_continuous_ping from line 833
\* to its end.
StartContinuousPing ==
    \E t \in 1..Len(loops) :
        /\ loops[t] = "created"
        /\ loops' = [loops EXCEPT ![t] = "done"]
        /\ IF selected_target = "" \/ continuous_running
           THEN \* the guard of lines 834-835
                UNCHANGED <<continuous_running, ping_count, rounds_begun>>
           ELSE IF QueryRaises
           THEN \* lines 837-839: the query is before the try, the task ends
                \* in its exception and the flag stays set
                /\ continuous_running' = TRUE
                /\ ping_count' = 0
                /\ UNCHANGED rounds_begun
           ELSE \* lines 837-858: the flag is set, round 1 begins and is shown,
                \* line 858 raises NameError; lines 881-885 clear the flag
                /\ ping_count' = 1
                /\ rounds_begun' = rounds_begun + 1
                /\ continuous_running' = FALSE
        /\ UNCHANGED <<selected_target, dismissed, stop_pending>>
        /\ UNCHANGED <<bw_vars, ping_vars, topo_vars, analysis_vars, render_vars, geo_vars,
                   dash_vars>>

-----------------------------------------------------------------------------
(* TailscaleDashboard and NetworkMapScreen *)

\* self.CACHE_TTL, in seconds.
CACHE_TTL == 10

\* The seconds by which time.time() advances in one step.
TickSteps == {5}

Views == {"overview", "bandwidth"}

\* A topology dict: how many online peers the status listed, how many of
\* them have their entry in the connections map, and whether
\* get_network_topology has returned it. None and {} are not present.
NoSnapshot == [present |-> FALSE, online |-> 0, connections |-> 0, finished |-> FALSE]

NoTime == -1

\* The event loop thread runs nothing, and no operation is in progress on it.
Idle == [running |-> "idle", operation |-> "none"]

NoBuild == [active |-> FALSE, target |-> "", current_time |-> 0, snapshot |-> NoSnapshot]

NoCacheCall ==
    [called |-> FALSE, at |-> 0, rebuilt |-> FALSE, raised |-> FALSE,
     before |-> NoSnapshot, before_time |-> 0, returned |-> NoSnapshot,
     stamp |-> 0, probes |-> 0, previous_probes_at |-> NoTime]

CacheStale_mutant(cache, cache_time, current_time) ==
    ~cache.present \/ current_time - cache_time >= CACHE_TTL

\* The test of lines 937-938.
CacheStale(cache, cache_time, current_time) ==
    ~cache.present \/ current_time - cache_time > CACHE_TTL

\* get_network_topology is entered, lines 133-140: the status is read and
\* lists the given number of online peers; connections is empty.
BeginBuild(target, current_time, online) ==
    [active |-> TRUE, target |-> target, current_time |-> current_time,
     snapshot |-> [present |-> TRUE, online |-> online, connections |-> 0,
                   finished |-> FALSE]]

LoopDone_mutant(b) == TRUE

\* The loop of lines 143-153 has run over every online peer.
LoopDone(b) == b.snapshot.connections = b.snapshot.online

\* refresh_data is entered by the given task, lines 991-998: the three
\* status queries are calls of the coroutine itself.
refresh_data(task) ==
    /\ event_loop = Idle
    /\ topology_tasks < MaxTopologyTasks
    /\ event_loop' = [running |-> task, operation |-> "status_queries"]
    /\ UNCHANGED <<dash_clock, current_view, topology_cache, topology_cache_time,
                   app_topology_data, map_topology_data, build, topology_tasks,
                   cache_call, probes_at>>
    /\ UNCHANGED <<bw_vars, ping_vars, topo_vars, analysis_vars, render_vars, geo_vars,
                   cont_vars>>

\* refresh_loop, lines 983-989, and on_mount, line 980: the timer's refresh.
TimerRefresh == refresh_data("refresh_loop")

\* The key 'r': action_refresh, lines 1212-1213.
KeyRefresh == refresh_data("action_refresh")

\* The status queries returned, lines 1000-1012: update_ui_batch (with the
\* status query of update_table), then the topology task is created and, in
\* the bandwidth view, the counters are read; or Tailscale is stopped, or a
\* query raised.
RefreshQueriesDone ==
    /\ event_loop.operation = "status_queries"
    /\ \E outcome \in {"running", "stopped", "raised"} :
         IF outcome = "running"
         THEN /\ topology_tasks' = topology_tasks + 1
              /\ event_loop' = IF current_view = "bandwidth"
                               THEN [event_loop EXCEPT !.operation = "bandwidth_read"]
                               ELSE Idle
         ELSE /\ event_loop' = Idle
              /\ UNCHANGED topology_tasks
    /\ UNCHANGED <<dash_clock, current_view, topology_cache, topology_cache_time,
                   app_topology_data, map_topology_data, build, cache_call, probes_at>>
    /\ UNCHANGED <<bw_vars, ping_vars, topo_vars, analysis_vars, render_vars, geo_vars,
                   cont_vars>>

\* update_bandwidth_display returned, lines 1049-1057.
BandwidthReadDone ==
    /\ event_loop.operation = "bandwidth_read"
    /\ event_loop' = Idle
    /\ UNCHANGED <<dash_clock, current_view, topology_cache, topology_cache_time,
                   app_topology_data, map_topology_data, build, topology_tasks,
                   cache_call, probes_at>>
    /\ UNCHANGED <<bw_vars, ping_vars, topo_vars, analysis_vars, render_vars, geo_vars,
                   cont_vars>>

\* The keys '1' and '4': switch_view, lines 1188-1210.
SwitchView ==
    /\ event_loop = Idle
    /\ \E view_name \in Views :
         /\ current_view' = view_name
         /\ event_loop' = IF view_name = "bandwidth"
                          THEN [running |-> "switch_view", operation |-> "bandwidth_read"]
                          ELSE Idle
    /\ UNCHANGED <<dash_clock, topology_cache, topology_cache_time, app_topology_data,
                   map_topology_data, build, topology_tasks, cache_call, probes_at>>
    /\ UNCHANGED <<bw_vars, ping_vars, topo_vars, analysis_vars, render_vars, geo_vars,
                   cont_vars>>

\* The event loop runs a created update_topology_async task, lines 1059-1062,
\* which calls get_cached_topology, lines 935-941: the cached dict is
\* returned and published, or get_network_topology is entered (and raises
\* before its loop when a status read raises).
UpdateTopologyAsync ==
    /\ event_loop = Idle
    /\ topology_tasks > 0
    /\ topology_tasks' = topology_tasks - 1
    /\ LET current_time == dash_clock
       IN  IF CacheStale(topology_cache, topology_cache_time, current_time)
           THEN \E raises \in BOOLEAN, online \in 0..MaxOnline :
                  IF raises
                  THEN /\ cache_call' = [NoCacheCall EXCEPT
                              !.called = TRUE, !.at = current_time, !.rebuilt = TRUE,
                              !.raised = TRUE, !.before = topology_cache,
                              !.before_time = topology_cache_time,
                              !.stamp = topology_cache_time,
                              !.previous_probes_at = probes_at]
                       /\ UNCHANGED <<event_loop, build, app_topology_data>>
                  ELSE /\ build' = BeginBuild("cache", current_time, online)
                       /\ event_loop' = [running |-> "update_topology_async",
                                         operation |-> "topology_build"]
                       /\ UNCHANGED <<cache_call, app_topology_data>>
           ELSE /\ app_topology_data' = topology_cache
                /\ cache_call' = [NoCacheCall EXCEPT
                       !.called = TRUE, !.at = current_time,
                       !.before = topology_cache, !.before_time = topology_cache_time,
                       !.returned = topology_cache, !.stamp = topology_cache_time,
                       !.previous_probes_at = probes_at]
                /\ UNCHANGED <<event_loop, build>>
    /\ UNCHANGED <<dash_clock, current_view, topology_cache, topology_cache_time,
                   map_topology_data, probes_at>>
    /\ UNCHANGED <<bw_vars, ping_vars, topo_vars, analysis_vars, render_vars, geo_vars,
                   cont_vars>>

\* The key 'm': a NetworkMapScreen is pushed and its update_network_map,
\* lines 498-506, enters get_network_topology (or the call raises).
ShowNetworkMap ==
    /\ event_loop = Idle
    /\ map_topology_data' = NoSnapshot
    /\ \E raises \in BOOLEAN, online \in 0..MaxOnline :
         IF raises THEN UNCHANGED <<event_loop, build>>
         ELSE /\ build' = BeginBuild("map", dash_clock, online)
              /\ event_loop' = [running |-> "update_network_map",
                                operation |-> "topology_build"]
    /\ UNCHANGED <<dash_clock, current_view, topology_cache, topology_cache_time,
                   app_topology_data, topology_tasks, cache_call, probes_at>>
    /\ UNCHANGED <<bw_vars, ping_vars, topo_vars, analysis_vars, render_vars, geo_vars,
                   cont_vars>>

\* One iteration of the loop of get_network_topology for an online peer,
\* src/ts_backend.py:143-153: the probe returns and the peer's entry is put
\* into connections.
BuildProbe ==
    /\ build.active
    /\ build.snapshot.connections < build.snapshot.online
    /\ build' = [build EXCEPT !.snapshot.connections = @ + 1]
    /\ UNCHANGED <<dash_clock, current_view, topology_cache, topology_cache_time,
                   app_topology_data, map_topology_data, event_loop, topology_tasks,
                   cache_call, probes_at>>
    /\ UNCHANGED <<bw_vars, ping_vars, topo_vars, analysis_vars, render_vars, geo_vars,
                   cont_vars>>

\* get_network_topology returns its dict, src/ts_backend.py:155-159; the
\* caller stores it: lines 939-941 and 1062, or line 506.
BuildReturn ==
    /\ build.active
    /\ LoopDone(build)
    /\ LET returned == [build.snapshot EXCEPT !.finished = TRUE]
       IN  IF build.target = "cache"
           THEN /\ topology_cache' = returned
                /\ topology_cache_time' = build.current_time
                /\ app_topology_data' = returned
                /\ cache_call' = [called |-> TRUE, at |-> build.current_time,
                                  rebuilt |-> TRUE, raised |-> FALSE,
                                  before |-> topology_cache,
                                  before_time |-> topology_cache_time,
                                  returned |-> returned, stamp |-> build.current_time,
                                  probes |-> returned.connections,
                                  previous_probes_at |-> probes_at]
                /\ probes_at' = IF returned.connections > 0 THEN build.current_time
                                ELSE probes_at
                /\ UNCHANGED map_topology_data
           ELSE /\ map_topology_data' = returned
                /\ UNCHANGED <<topology_cache, topology_cache_time, app_topology_data,
                               cache_call, probes_at>>
    /\ build' = NoBuild
    /\ event_loop' = Idle
    /\ UNCHANGED <<dash_clock, current_view, topology_tasks>>
    /\ UNCHANGED <<bw_vars, ping_vars, topo_vars, analysis_vars, render_vars, geo_vars,
                   cont_vars>>

\* A row of the table is selected, lines 1158-1171: after the result screen
\* is pushed, the coroutine calls ping(ip).
RowSelected ==
    /\ event_loop = Idle
    /\ event_loop' = [running |-> "on_data_table_row_selected",
                      operation |-> "quick_ping"]
    /\ UNCHANGED <<dash_clock, current_view, topology_cache, topology_cache_time,
                   app_topology_data, map_topology_data, build, topology_tasks,
                   cache_call, probes_at>>
    /\ UNCHANGED <<bw_vars, ping_vars, topo_vars, analysis_vars, render_vars, geo_vars,
                   cont_vars>>

\* ping(ip) returned, lines 1173-1179.
QuickPingDone ==
    /\ event_loop.operation = "quick_ping"
    /\ event_loop' = Idle
    /\ UNCHANGED <<dash_clock, current_view, topology_cache, topology_cache_time,
                   app_topology_data, map_topology_data, build, topology_tasks,
                   cache_call, probes_at>>
    /\ UNCHANGED <<bw_vars, ping_vars, topo_vars, analysis_vars, render_vars, geo_vars,
                   cont_vars>>

\* Time passes, also while a call blocks the event loop.
DashTick ==
    /\ \E d \in TickSteps :
         /\ dash_clock + d <= MaxDashClock
         /\ dash_clock' = dash_clock + d
    /\ UNCHANGED <<current_view, topology_cache, topology_cache_time,
                   app_topology_data, map_topology_data, event_loop, build,
                   topology_tasks, cache_call, probes_at>>
    /\ UNCHANGED <<bw_vars, ping_vars, topo_vars, analysis_vars, render_vars, geo_vars,
                   cont_vars>>

-----------------------------------------------------------------------------
(* Specifications *)

InitRender ==
    /\ map_call = NoMapCall
    /\ graph_call = NoGraphCall
    /\ line_call = NoLineCall

InitGeo ==
    /\ location_call = NoLocationCall
    /\ local_call = NoLocalCall

InitContinuous ==
    /\ continuous_running = FALSE
    /\ selected_target = ""
    /\ ping_count = 0
    /\ loops = <<>>
    /\ dismissed = "no"
    /\ rounds_begun = 0
    /\ stop_pending = FALSE

\* __init__, lines 926-933, and the class attributes of lines 920-925.
InitDashboard ==
    /\ dash_clock = 0
    /\ current_view = "overview"
    /\ topology_cache = NoSnapshot
    /\ topology_cache_time = 0
    /\ app_topology_data = NoSnapshot
    /\ map_topology_data = NoSnapshot
    /\ event_loop = Idle
    /\ build = NoBuild
    /\ topology_tasks = 0
    /\ cache_call = NoCacheCall
    /\ probes_at = NoTime

Init ==
    /\ InitBandwidth /\ InitPing /\ InitTopology /\ InitAnalysis
    /\ InitRender /\ InitGeo /\ InitContinuous /\ InitDashboard

NextBandwidth == CalculateBandwidth \/ GetBandwidthData

SpecBandwidth == Init /\ [][NextBandwidth]_vars

NextPing == PingHostWithStats \/ Tick

\* Only the bandwidth store reads psutil_available.
InitWithPsutil == Init /\ psutil_available

SpecPing == InitWithPsutil /\ [][NextPing]_vars

NextQuality == GetConnectionQuality

SpecQuality == InitWithPsutil /\ [][NextQuality]_vars

NextTopology == GetNetworkTopology

SpecTopology == InitWithPsutil /\ [][NextTopology]_vars

NextStats == PingHostWithStats \/ Tick \/ GetPingStatistics

SpecStats == InitWithPsutil /\ [][NextStats]_vars

NextCompare == GetMultiPingComparison

SpecCompare == InitWithPsutil /\ [][NextCompare]_vars

NextTrend == CalculateTrend

NextMap == GenerateStandardMap

SpecMap == InitWithPsutil /\ [][NextMap]_vars

SpecTrend == InitWithPsutil /\ [][NextTrend]_vars

NextGraph == GenerateAsciiGraph

NextLine == DrawLineCall \/ DrawLineIteration \/ DrawLineReturn

SpecLine == InitWithPsutil /\ [][NextLine]_vars

NextGeo == GetPeerLocation

NextLocal == GetLocalLocation

SpecLocal == InitWithPsutil /\ [][NextLocal]_vars

NextShared == PingEitherHost \/ CalculateEitherBandwidth

SpecShared == InitWithPsutil /\ [][NextShared]_vars

NextDashboard ==
    \/ TimerRefresh \/ KeyRefresh \/ RefreshQueriesDone \/ BandwidthReadDone
    \/ SwitchView \/ UpdateTopologyAsync \/ ShowNetworkMap \/ BuildProbe
    \/ BuildReturn \/ RowSelected \/ QuickPingDone \/ DashTick

SpecDashboard == InitWithPsutil /\ [][NextDashboard]_vars

NextContinuous == SelectTarget \/ KeyC \/ KeyQ \/ StartContinuousPing

SpecContinuous == InitWithPsutil /\ [][NextContinuous]_vars

SpecGeo == InitWithPsutil /\ [][NextGeo]_vars

SpecGraph == InitWithPsutil /\ [][NextGraph]_vars

-----------------------------------------------------------------------------
(* Claims about the bandwidth store, checked under SpecBandwidth *)

\* The step is a call that read the counters of interface i.
SampledStep(i) ==
    /\ bw_call'.interface = i
    /\ bw_call'.read.present

\* The lists of one history entry.
HistoryLists(h) == <<h.upload, h.download, h.timestamps>>

\* C1, lengths: each of the three history lists of an interface holds as many
\* entries as rate points were produced for it, and never more than
\* max_history_points.
C1_Lengths ==
    \A i \in Interfaces : \A k \in 1..3 :
        Len(HistoryLists(bandwidth_history[i])[k])
            = Min(bw_points[i], bw_max_history_points)

\* C1, order: a step that produces a rate point appends it at the end of each
\* list and, when the list was full, evicts the first (oldest) entry; any other
\* step leaves the lists as they are. The newest timestamp is that of the sample.
C1_FifoStep ==
    \A i \in Interfaces :
        IF bw_points'[i] = bw_points[i] + 1
        THEN /\ \A k \in 1..3 :
                  LET old == HistoryLists(bandwidth_history[i])[k]
                      new == HistoryLists(bandwidth_history'[i])[k]
                  IN  /\ new # <<>>
                      /\ new = LastN(Append(old, new[Len(new)]), bw_max_history_points)
             /\ LET ts == bandwidth_history'[i].timestamps
                IN  ts[Len(ts)] = bw_call'.read.timestamp
        ELSE bandwidth_history'[i] = bandwidth_history[i]

\* C1: the upload, download and timestamp histories never hold more than
\* max_history_points entries, and hold the most recent points in production
\* order, the oldest evicted first.
C1_HistoryBoundedFifo == [](C1_Lengths) /\ [][C1_FifoStep]_vars

\* C1 witness: more points than the capacity were produced, the history is full.
C1_Witness ==
    \E i \in Interfaces :
        /\ bw_points[i] > bw_max_history_points
        /\ Len(bandwidth_history[i].upload) = bw_max_history_points

\* C4: the first sample of an interface with no stored previous counters stores
\* the raw counters, returns zero rates with no error marker and appends nothing.
C4_ColdStart ==
    [][\A i \in Interfaces :
         (SampledStep(i) /\ ~previous_stats[i].present)
            => /\ previous_stats'[i] = bw_call'.read
               /\ bw_result'.upload_bps = Zero
               /\ bw_result'.download_bps = Zero
               /\ "error" \notin bw_result'.keys
               /\ bandwidth_history' = bandwidth_history
               /\ bw_points' = bw_points]_vars

\* C4 witness: a cold start has happened: the last call sampled an interface
\* that has stored counters and no history, and returned the zero result.
C4_Witness ==
    \E i \in Interfaces :
        /\ bw_call.interface = i
        /\ bw_call.read.present
        /\ bw_call.read.timestamp > 0
        /\ previous_stats[i] = bw_call.read
        /\ bw_points[i] = 0
        /\ bw_result.keys = {"upload_bps", "download_bps", "interface"}

\* C5 (the claim as stated): no call returns a negative upload_bps or
\* download_bps, and a returned rate is the floored value stored in the history.
C5_ReturnedRatesFloored ==
    /\ bw_result.upload_bps.n >= 0
    /\ bw_result.download_bps.n >= 0
    /\ "upload_history" \in bw_result.keys =>
         /\ bw_result.upload_bps
              = bw_result.upload_history[Len(bw_result.upload_history)]
         /\ bw_result.download_bps
              = bw_result.download_history[Len(bw_result.download_history)]

\* The statistics a call needs are unavailable: psutil is missing, no Tailscale
\* interface was found, or the counter read gave nothing.
StatsUnavailable(call) ==
    /\ call.op # "none"
    /\ \/ ~psutil_available
       \/ call.interface = NoInterface
       \/ ~call.read.present

\* C6: a call that finds the interface statistics unavailable returns an error
\* marker with zero rates and leaves previous_stats and bandwidth_history
\* unchanged.
C6_UnavailableIsError ==
    [][StatsUnavailable(bw_call')
         => /\ "error" \in bw_result'.keys
            /\ bw_result'.error # ""
            /\ bw_result'.upload_bps = Zero
            /\ bw_result'.download_bps = Zero
            /\ previous_stats' = previous_stats
            /\ bandwidth_history' = bandwidth_history]_vars

\* C6 witness: the last call found the statistics unavailable while counters
\* and a history were stored.
C6_Witness ==
    /\ StatsUnavailable(bw_call)
    /\ "error" \in bw_result.keys
    /\ \E i \in Interfaces :
         /\ previous_stats[i].present
         /\ bandwidth_history[i].upload # <<>>

-----------------------------------------------------------------------------
(* Claims about the ping store, checked under SpecPing *)

\* C2 (the claim as stated): every call of ping_host_with_stats appends exactly
\* one record to the history of its hostname, whatever the probe did; so after
\* N calls, N not above the capacity, the history holds exactly N records.
C2_OneRecordPerCall ==
    \A h \in PingHosts :
        ping_calls[h] <= ping_max_history_points
            => Len(ping_history[h]) = ping_calls[h]

\* C3 (the claim as stated): the history of a hostname never holds more than
\* max_history_points records.
C3_HistoryBounded ==
    \A h \in PingHosts : Len(ping_history[h]) <= ping_max_history_points

-----------------------------------------------------------------------------
(* Claims about the quality classifier, checked under SpecQuality *)

\* C7: for every latency L the classifier gives excellent iff L < 20, good iff
\* 20 <= L < 50, fair iff 50 <= L < 100, poor iff L >= 100, and it gives unknown
\* for None.
C7_QualityTiers ==
    quality_call.called =>
        LET L == quality_call.latency
            q == quality_call.quality
        IN  /\ (q = "excellent") <=> (L.some /\ L.v < 20)
            /\ (q = "good") <=> (L.some /\ 20 <= L.v /\ L.v < 50)
            /\ (q = "fair") <=> (L.some /\ 50 <= L.v /\ L.v < 100)
            /\ (q = "poor") <=> (L.some /\ L.v >= 100)
            /\ (~L.some => q = "unknown")

\* C7 witness: a latency on a tier boundary has been classified.
C7_Witness ==
    /\ quality_call.called
    /\ quality_call.latency = Latency(20)
    /\ quality_call.quality = "good"

-----------------------------------------------------------------------------
(* Claims about the topology builder, checked under SpecTopology *)

\* C8 (the claim as stated): in every graph built, the quality of each edge is
\* the classifier's tier of the edge's probe latency, and it is unknown only
\* when the probe measured no latency.
C8_EdgeQualityIsClassifier ==
    (topo_input.called /\ ~topology.raised) =>
        \A key \in DOMAIN topology.connections :
            LET edge == topology.connections[key]
            IN  /\ edge.quality = get_connection_quality(edge.latency)
                /\ (edge.quality = "unknown") <=> ~edge.latency.some

\* Both status reads of a build saw a source that is unreachable, or that gave
\* text that is no JSON, or that gave a JSON object whose "Peer" is null or
\* absent (and whose "Self" is an object or absent).
StatusWithoutPeers ==
    /\ topo_input.called
    /\ LET p == topo_input.peer_read
           s == topo_input.self_read
       IN  \/ p.kind = "unreachable" /\ s.kind = "unreachable"
           \/ p.kind = "nonjson" /\ s.kind = "nonjson"
           \/ /\ p.kind = "json" /\ p.Peer \in {"absent", "null"}
              /\ s.kind = "json" /\ s.Self \in {"absent", "object"}

\* C9 (the claim as stated): on such a status get_network_topology does not
\* raise; it returns a graph whose nodes are empty or the self node alone and
\* whose connections map is empty.
C9_DegradedGraphNotRaise ==
    StatusWithoutPeers =>
        /\ ~topology.raised
        /\ topology.connections = EmptyDict
        /\ Len(topology.nodes) <= 1
        /\ \A k \in DOMAIN topology.nodes :
               topology.nodes[k].hostname = topology.center_node

\* C10 (the claim as stated): in every graph returned, center_node is the
\* hostname of exactly one node of the nodes sequence.
C10_CenterIsExactlyOneNode ==
    (topo_input.called /\ ~topology.raised) =>
        Cardinality({k \in DOMAIN topology.nodes :
                        topology.nodes[k].hostname = topology.center_node}) = 1

\* The peers of a graph built: every node after the self node.
GraphPeers == SubSeq(topology.nodes, 2, Len(topology.nodes))

OnlinePeers == {k \in DOMAIN GraphPeers : GraphPeers[k].online}

\* C11 (the claim as stated): a build issues exactly one probe per online peer
\* and none for an offline peer, and the connections map holds exactly one edge
\* per online peer, from the center hostname to that peer, and no other edge.
C11_OneProbeOneEdgePerOnlinePeer ==
    (topo_input.called /\ ~topology.raised) =>
        /\ \A k \in DOMAIN GraphPeers :
               Cardinality({i \in DOMAIN topo_input.probes :
                               topo_input.probes[i].peer = k})
                   = IF k \in OnlinePeers THEN 1 ELSE 0
        /\ Cardinality(DOMAIN topology.connections) = Cardinality(OnlinePeers)
        /\ \A key \in DOMAIN topology.connections :
               /\ topology.connections[key].source = topology.center_node
               /\ \E k \in OnlinePeers :
                      topology.connections[key].target = GraphPeers[k].hostname
        /\ \A k \in OnlinePeers :
               \E key \in DOMAIN topology.connections :
                   topology.connections[key].target = GraphPeers[k].hostname

-----------------------------------------------------------------------------
(* Claims about the statistics, checked under SpecTrend, SpecStats, SpecCompare *)

\* C12 (the claim as stated): for fewer than 3 values the trend is
\* insufficient_data; otherwise, with m1 the mean of the first floor(n/2)
\* values and m2 the mean of the rest, it is worsening when m2 > 1.1 * m1,
\* improving when m2 < 0.9 * m1, and stable otherwise.
C12_TrendComparesHalves ==
    trend_call.called =>
        LET values == trend_call.values
            n1 == Len(FirstHalf(values))
            n2 == Len(SecondHalf(values))
            s1 == SeqSum(FirstHalf(values))
            s2 == SeqSum(SecondHalf(values))
        IN  IF Len(values) < 3 THEN trend_call.trend = "insufficient_data"
            ELSE trend_call.trend =
                     IF 10 * s2 * n1 > 11 * s1 * n2 THEN "worsening"
                     ELSE IF 10 * s2 * n1 < 9 * s1 * n2 THEN "improving"
                     ELSE "stable"

\* The successful latencies that the history of the last statistics call held.
StatsLatencies == AllLatencies(SuccessfulPings(ping_history[ping_stats.hostname]))

\* C13 (the claim as stated): when the history holds at least 3 successful
\* latencies, recent_trend is the classification (worsening, improving or
\* stable) of the last 10 of them at most; it is insufficient_data only when
\* the history holds fewer than 3.
C13_RecentTrendFromThree ==
    (ping_stats.called /\ "recent_trend" \in ping_stats.stats.keys) =>
        /\ Len(StatsLatencies) >= 3 =>
               /\ ping_stats.stats.recent_trend = calculate_trend(LastN(StatsLatencies, 10))
               /\ ping_stats.stats.recent_trend \in {"worsening", "improving", "stable"}
        /\ ping_stats.stats.recent_trend = "insufficient_data" => Len(StatsLatencies) < 3

\* The hosts of the last comparison whose probe produced an average latency,
\* in the order of the results dict.
MeasuredHosts ==
    SelectSeq(DictKeys(compare_call.hostnames),
              LAMBDA h : compare_call.results[h].avg_latency.some)

MeasuredAverages ==
    [k \in DOMAIN MeasuredHosts |-> compare_call.results[MeasuredHosts[k]].avg_latency.v]

ComparisonKeys == {"fastest_host", "slowest_host", "avg_latency_all", "latency_range"}

\* C14 (the claim as stated): a comparison never raises, and its four figures
\* are there exactly when some host produced an average latency, computed over
\* those hosts alone: fastest_host and slowest_host are hosts with the least
\* and the greatest average, avg_latency_all is the mean of the averages and
\* latency_range is the greatest minus the least.
C14_ComparisonOverMeasuredHosts ==
    compare_call.called =>
        /\ ~compare_call.raised
        /\ IF MeasuredHosts = <<>>
           THEN compare_call.summary.keys \cap ComparisonKeys = {}
           ELSE /\ ComparisonKeys \subseteq compare_call.summary.keys
                /\ \E k \in DOMAIN MeasuredHosts :
                       /\ MeasuredHosts[k] = compare_call.summary.fastest_host
                       /\ MeasuredAverages[k] = RatMin(MeasuredAverages)
                /\ \E k \in DOMAIN MeasuredHosts :
                       /\ MeasuredHosts[k] = compare_call.summary.slowest_host
                       /\ MeasuredAverages[k] = RatMax(MeasuredAverages)
                /\ compare_call.summary.avg_latency_all =
                       TrueDiv(RatSum(MeasuredAverages).n,
                               RatSum(MeasuredAverages).d * Len(MeasuredAverages))
                /\ compare_call.summary.latency_range =
                       RatSub(RatMax(MeasuredAverages), RatMin(MeasuredAverages))

-----------------------------------------------------------------------------
(* Claims about the map renderers, checked under SpecMap *)

\* The graph of the last map call holds the center node and nothing else.
CenterOnly ==
    /\ map_call.called
    /\ Len(map_call.topology.nodes) = 1
    /\ map_call.topology.nodes[1].hostname = map_call.topology.center_node
    /\ map_call.topology.connections = EmptyDict

\* C15: generate_standard_map of a graph that holds the center node alone gives
\* a grid whose row height // 2 holds the center glyph at column width // 2,
\* and no cell of the grid holds a line glyph.
C15_CenterOnlyMap ==
    (CenterOnly /\ map_call.view_mode = "standard") =>
        LET x == map_call.width \div 2
            y == map_call.height \div 2
            cells == map_call.canvas.cells
        IN  /\ cells[<<x, y>>].ch = CenterGlyph
            /\ JoinedColumn(cells, x, y) = x
            /\ \A p \in DOMAIN cells : cells[p].ch \notin LineGlyphs

C15_Witness ==
    /\ CenterOnly
    /\ map_call.view_mode = "standard"
    /\ map_call.width = 12
    /\ map_call.height = 8
    /\ map_call.canvas.cells[<<6, 4>>].ch = CenterGlyph
    /\ map_call.canvas.cells[<<6, 5>>].ch = "m"

\* C16 (the claim as stated): every write of draw_line finds the space
\* character in a cell that no node glyph, hostname label, location label or
\* other line has written.
C16_LinesWriteBlankCells ==
    map_call.called =>
        \A w \in map_call.canvas.line_writes :
            w.held.ch = Space /\ w.held.by = "blank"

-----------------------------------------------------------------------------
(* Claims about the graph renderer, checked under SpecGraph *)

NoDataCall ==
    /\ graph_call.called
    /\ \/ graph_call.data = <<>>
       \/ \A i \in 1..Len(graph_call.data) : graph_call.data[i] = 0

\* "No data" between two runs of spaces that differ by at most one, the whole
\* row being width long (or the bare placeholder when the width is shorter).
IsCenteredPlaceholder(row, width) ==
    \E left, right \in 0..width :
        /\ row = Spaces(left) \o Chars("No data") \o Spaces(right)
        /\ left - right \in {-1, 0, 1}
        /\ Len(row) = Max(width, Len(Chars("No data")))

\* C17: for an empty or all-zero series generate_ascii_graph does not raise
\* and returns height rows where row height // 2 is the centered "No data"
\* placeholder, row 0 is the title (cut to the width, padded) when one is
\* given and row 0 is not the placeholder's row, every other row is blank,
\* and no data glyph is in any cell.
C17_NoDataPlaceholder ==
    NoDataCall =>
        LET r == graph_call.result
            w == graph_call.width
            h == graph_call.height
        IN /\ ~r.raised
           /\ Len(r.rows) = h
           /\ IsCenteredPlaceholder(r.rows[(h \div 2) + 1], w)
           /\ \A y \in 0..(h - 1) :
                 y # h \div 2 =>
                   IF y = 0 /\ graph_call.title # ""
                   THEN r.rows[y + 1] = Ljust(Prefix(Chars(graph_call.title), w), w)
                   ELSE r.rows[y + 1] = Spaces(w)
           /\ \A y \in 1..h : \A x \in 1..Len(r.rows[y]) :
                 r.rows[y][x] \notin BarGlyphs

\* An all-zero series of three values with a title, on a grid wide enough
\* to pad the placeholder and tall enough to keep the title apart from it.
C17_Witness ==
    /\ NoDataCall
    /\ graph_call.data = <<0, 0, 0>>
    /\ graph_call.title = "Upload"
    /\ graph_call.width = 10 /\ graph_call.height = 5
    /\ graph_call.result.rows[3] = Center(Chars("No data"), 10)
    /\ graph_call.result.rows[1] = Ljust(Chars("Upload"), 10)

-----------------------------------------------------------------------------
(* Claims about the geo heuristics, checked under SpecGeo *)

Sentinel(field) == IF field = "country_code" THEN "??" ELSE "Unknown"

\* C18: a city, country, country_code or region that the relay resolver or
\* the endpoint resolver set to a value other than the Unknown sentinel is
\* the value that get_peer_location returns: the hostname resolver fills
\* only the fields still at the sentinel.
C18_HostnameFillsUnknownOnly ==
    location_call.called =>
        \A field \in {"city", "country", "country_code", "region"} :
            location_call.earlier[field] # Sentinel(field) =>
                location_call.location[field] = location_call.earlier[field]

-----------------------------------------------------------------------------
(* Claims about the continuous ping, checked under SpecContinuous *)

\* C20: while a stop is requested and no start was requested after it, no
\* task begins a round and the flag continuous_running is not set again.
C20_NoRoundAfterStop ==
    [][(stop_pending /\ stop_pending') =>
          (rounds_begun' = rounds_begun /\ ~continuous_running')]_vars

-----------------------------------------------------------------------------
(* More claims about the bandwidth store, checked under SpecBandwidth *)

\* C26: a call that finds stored previous counters for the interface and reads
\* the current counters appends one rate point to the history of the interface
\* (its timestamp last) and stores the counters read, whatever the two
\* timestamps are; the zero result without history is returned only by a call
\* that found no stored counters.
C26_OnePointPerWarmCall ==
    [][\A i \in Interfaces :
         SampledStep(i) =>
            /\ previous_stats[i].present =>
                  /\ bw_points'[i] = bw_points[i] + 1
                  /\ bandwidth_history'[i].timestamps # <<>>
                  /\ bandwidth_history'[i].timestamps[Len(bandwidth_history'[i].timestamps)]
                        = bw_call'.read.timestamp
                  /\ previous_stats'[i] = bw_call'.read
            /\ bw_result'.keys = {"upload_bps", "download_bps", "interface"}
                  => ~previous_stats[i].present]_vars
-----------------------------------------------------------------------------
(* Claims about the dashboard, checked under SpecDashboard *)

\* The topology dicts that the UI can read.
PublishedTopologies == {topology_cache, app_topology_data, map_topology_data}

\* C21: every topology that the dashboard's topology_data, the cache or the
\* map screen's topology_data holds is a dict that get_network_topology has
\* returned, with the entry of every online peer in its connections map; the
\* dict of a build in progress is held by none of them.
C21_PublishedTopologyComplete ==
    \A t \in PublishedTopologies :
        t.present => /\ t.finished
                     /\ t.connections = t.online
                     /\ t # build.snapshot

\* C21 witness: a cached build is in progress with one of two entries in its
\* connections map, while the cache and the dashboard hold the finished
\* graph of an earlier build and the map screen holds another.
C21_Witness ==
    /\ build.active /\ build.target = "cache"
    /\ build.snapshot.online = 2 /\ build.snapshot.connections = 1
    /\ topology_cache.present /\ app_topology_data = topology_cache
    /\ map_topology_data.present

\* C22: no probe-issuing operation (status queries, the probes of a topology
\* build, the quick ping, the bandwidth counter reads) runs on the event
\* loop thread: while one is in progress the event loop is idle and can
\* process a key.
C22_ProbesOffEventLoop ==
    event_loop.operation # "none" => event_loop.running = "idle"

\* C27: get_cached_topology rebuilds only when nothing is cached or the
\* cached snapshot is older than CACHE_TTL, else it returns the cached
\* snapshot unchanged; the snapshot returned is not older than CACHE_TTL at
\* the time of the call; two builds of it that issue probes are more than
\* CACHE_TTL apart.
C27_CacheWithinTTL ==
    /\ [](cache_call.called =>
             /\ cache_call.rebuilt =>
                    \/ ~cache_call.before.present
                    \/ cache_call.at - cache_call.before_time > CACHE_TTL
             /\ ~cache_call.rebuilt =>
                    /\ cache_call.before.present
                    /\ cache_call.returned = cache_call.before
                    /\ cache_call.stamp = cache_call.before_time
             /\ cache_call.returned.present =>
                    /\ cache_call.at - cache_call.stamp <= CACHE_TTL
                    /\ cache_call.at - cache_call.stamp >= 0
             /\ (cache_call.probes > 0 /\ cache_call.previous_probes_at # NoTime) =>
                    cache_call.at - cache_call.previous_probes_at > CACHE_TTL)
    /\ [][<<topology_cache, topology_cache_time>>' #
             <<topology_cache, topology_cache_time>> =>
             /\ build.active /\ build.target = "cache"
             /\ CacheStale(topology_cache, topology_cache_time, build.current_time)]_vars

\* C27 witness: a call made exactly CACHE_TTL after the build of the cached
\* snapshot, which probed two peers, returned that snapshot without a
\* rebuild.
C27_Witness ==
    /\ cache_call.called /\ ~cache_call.rebuilt
    /\ cache_call.at - cache_call.stamp = CACHE_TTL
    /\ cache_call.returned.connections = 2
    /\ probes_at = cache_call.stamp

-----------------------------------------------------------------------------
(* Claims about the local location, checked under SpecLocal *)

\* C23: a region that get_local_location took from the netcheck output is
\* the region of its result: the region derived from the timezone name is
\* used only when the netcheck step left the region Unknown.
C23_TimezoneRegionIsFallback ==
    (local_call.called /\ local_call.resolved.region # UnknownChars) =>
        local_call.location.region = local_call.resolved.region

-----------------------------------------------------------------------------
(* More claims about the map renderers, checked under SpecMap *)

\* online_peers of line 529 for the graph of the last rendering call.
MapOnlinePeers ==
    SelectSeq(map_call.topology.nodes,
              LAMBDA n : n.hostname # map_call.topology.center_node /\ n.online)

\* C25: on a canvas at least 5 wide and 3 high, generate_standard_map gives
\* every online non-center node a position with 2 <= x <= width - 3 and
\* 1 <= y <= height - 2.
C25_OnlinePositionsClamped ==
    (/\ map_call.called /\ map_call.view_mode = "standard"
     /\ map_call.width >= 5 /\ map_call.height >= 3) =>
        \A i \in 0..(Len(MapOnlinePeers) - 1) :
            LET at == PeerPosition(i, Len(MapOnlinePeers), map_call.width,
                                   map_call.height)
            IN  /\ 2 <= at.x /\ at.x <= map_call.width - 3
                /\ 1 <= at.y /\ at.y <= map_call.height - 2

\* C25 witness: three online peers on the 6 x 6 canvas, where the circle
\* reaches past both bounds of x (5 and 1 before the clamp to [2, 3]); the
\* last peer's glyph is in the cell of its position.
C25_Witness ==
    /\ map_call.called /\ map_call.view_mode = "standard"
    /\ map_call.width = 6 /\ map_call.height = 6
    /\ Len(MapOnlinePeers) = 3
    /\ IntOf(3, 2, TrigMicro(0, 3).cos) = 5
    /\ PeerPosition(0, 3, 6, 6).x = 3
    /\ IntOf(3, 2, TrigMicro(2, 3).cos) = 1
    /\ PeerPosition(2, 3, 6, 6).x = 2
    /\ LET at == PeerPosition(2, 3, 6, 6)
       IN  map_call.canvas.cells[<<at.x, at.y>>] = Cell(LinuxGlyph, "node")

-----------------------------------------------------------------------------
(* Claims about draw_line, checked under SpecLine *)

\* The distance left along the major axis of the call.
LineMajorLeft(call) ==
    IF call.locals.dx > call.locals.dy THEN Abs(call.x2 - call.locals.x)
    ELSE Abs(call.y2 - call.locals.y)

\* The canvas that the call gave is the canvas that draw_line, computed in one
\* piece, gives for the same endpoints.
LineStepsAgreeWithDrawLine ==
    line_call.pc = "returned" =>
        line_call.canvas =
            draw_line(BlankCanvas(LineCanvas.width, LineCanvas.height),
                      line_call.x1, line_call.y1, line_call.x2, line_call.y2,
                      LineChar, LineCanvas.width, LineCanvas.height)

\* C24: draw_line terminates for any integer endpoints (the iterations made
\* and the distance left along the major axis add up to max(dx, dy)); the
\* walk starts at (x1, y1); each iteration moves the position by at most 1 in
\* x and in y and by exactly one step toward the target along the major
\* axis; the position at return is (x2, y2), and the call did not write that
\* cell.
C24_LineWalk ==
    /\ [](line_call.pc # "none" =>
             /\ line_call.iterations + LineMajorLeft(line_call) =
                    Max(line_call.locals.dx, line_call.locals.dy)
             /\ line_call.iterations = 0 =>
                    /\ line_call.locals.x = line_call.x1
                    /\ line_call.locals.y = line_call.y1
             /\ line_call.pc = "returned" =>
                    /\ line_call.locals.x = line_call.x2
                    /\ line_call.locals.y = line_call.y2
                    /\ \A w \in line_call.canvas.line_writes :
                          ~(w.x = line_call.x2 /\ w.y = line_call.y2))
    /\ [][line_call'.iterations = line_call.iterations + 1 =>
             /\ Abs(line_call'.locals.x - line_call.locals.x) <= 1
             /\ Abs(line_call'.locals.y - line_call.locals.y) <= 1
             /\ LineMajorLeft(line_call') = LineMajorLeft(line_call) - 1]_vars

\* C24 witness: a call from a cell left of the canvas to a cell of it, with
\* a shallow slope, has returned after 4 iterations and wrote 3 cells.
C24_Witness ==
    /\ line_call.pc = "returned"
    /\ line_call.x1 = -1 /\ line_call.y1 = 0
    /\ line_call.x2 = 3 /\ line_call.y2 = 2
    /\ line_call.iterations = 4
    /\ Cardinality(line_call.canvas.line_writes) = 3

-----------------------------------------------------------------------------
(* More claims about the graph renderer, checked under SpecGraph *)

\* C29: for width >= 1 and height >= 2, generate_ascii_graph does not raise
\* and returns exactly height rows, each exactly width characters long,
\* whatever the series and the title.
C29_GridIsHeightByWidth ==
    (graph_call.called /\ graph_call.width >= 1 /\ graph_call.height >= 2) =>
        LET r == graph_call.result
        IN /\ ~r.raised
           /\ Len(r.rows) = graph_call.height
           /\ \A y \in 1..Len(r.rows) : JoinedLen(r.rows[y]) = graph_call.width

-----------------------------------------------------------------------------
(* More claims about the statistics, checked under SpecStats *)

\* C28: when every record of the hostname's history lies within the last
\* hour, the availability_1_hour that get_ping_statistics reports equals its
\* success_rate, and successful_pings counts the records whose success flag
\* is true.
C28_AvailabilityEqualsSuccessRate ==
    LET history == ping_history[ping_stats.hostname]
    IN  (/\ ping_stats.called
         /\ history # <<>>
         /\ \A k \in 1..Len(history) :
                clock - history[k].timestamp <= PeriodTicks("1_hour"))
        => /\ "availability_1_hour" \in ping_stats.stats.keys
           /\ ping_stats.stats.availability["1_hour"] =
                  Some(ping_stats.stats.success_rate)
           /\ ping_stats.stats.successful_pings =
                  Len(SelectSeq(history, LAMBDA p : p.success))

-----------------------------------------------------------------------------
(* Claims about both stores, checked under SpecShared *)

\* C30: a ping_host_with_stats call for one hostname leaves the history of
\* every other hostname as it was, and a calculate_bandwidth call for one
\* interface leaves the stored counters and the history of every other
\* interface as they were.
C30_StoresIsolatedPerKey ==
    [][/\ \A h \in PingHosts :
            ping_calls'[h] = ping_calls[h] + 1 =>
                \A g \in PingHosts \ {h} : ping_history'[g] = ping_history[g]
       /\ \A i \in Interfaces :
            (SampledStep(i) /\ bw_vars' # bw_vars) =>
                \A j \in Interfaces \ {i} :
                    /\ previous_stats'[j] = previous_stats[j]
                    /\ bandwidth_history'[j] = bandwidth_history[j]]_vars

\* C30 witness: the last probe was of alpha and was recorded while beta has
\* a record; the last sample was of tailscale0 and gave a rate point while
\* utun3 has stored counters and a rate point.
C30_Witness ==
    /\ ping_call.hostname = "alpha"
    /\ ping_history["alpha"] # <<>>
    /\ ping_history["beta"] # <<>>
    /\ ping_history["beta"][1].hostname = "beta"
    /\ bw_call.interface = "tailscale0"
    /\ "upload_history" \in bw_result.keys
    /\ previous_stats["utun3"].present
    /\ bandwidth_history["utun3"].upload # <<>>
=============================================================================
